---- MODULE Spec2Model ----
(***************************************************************************)
(* Orbital-mechanics and scene-update core of the solar-system viewer:     *)
(* the simulation clock (TimeControls + SolarSystem), the per-frame body   *)
(* update loop (SolarSystem.update / Planet.update), re-anchoring to a     *)
(* reference date, the scale model of PlanetData.ts and the asteroid field *)
(* of AsteroidBelt.ts.  The state is the clock, the planets with their     *)
(* moons, the Sun's spin, the orbit lines with their display settings and  *)
(* the asteroid belt.  Where the Sun's spin is not what is examined it is  *)
(* kept as the value NotFollowed, which every frame leaves NotFollowed.    *)
(*                                                                         *)
(* Number representation.  The program computes in IEEE doubles; the       *)
(* model computes in exact integers with fixed units:                      *)
(*   - elapsed time: whole seconds (units of FastUnit seconds at the       *)
(*     extreme time scale, where an angle is kept as whole turns and the   *)
(*     ticks within the turn);                                             *)
(*   - a planet's orbital angle: ticks, Rev(p) ticks to one revolution     *)
(*     (2*pi), Rev(p) chosen so that the mean motion per day of            *)
(*     calculateOrbitAngleForDate is a whole number of ticks;              *)
(*   - a moon's angle: 2 ms steps of its own period (MoonRev ticks to      *)
(*     one revolution); a rotation angle: centiseconds of the rotation     *)
(*     period (RotRev ticks to one revolution);                            *)
(*   - scene lengths: 1/10000 scene unit; radii in metres; a moon's        *)
(*     orbitalRadius (written km / AU in the catalog) by its km numerator. *)
(* A position is a periodic, injective function of the angle it is         *)
(* computed from, so it is represented by that angle reduced to one        *)
(* revolution (and, for a moon, the orbit radius it is multiplied by).     *)
(***************************************************************************)
EXTENDS Integers, Sequences, FiniteSets, TLC

\* ------------------------------------------------------------------------
\* Arithmetic helpers
\* ------------------------------------------------------------------------

Max(a, b) == IF a >= b THEN a ELSE b

Abs(a) == IF a < 0 THEN -a ELSE a

\* JavaScript's % : the remainder takes the sign of the dividend.
JsRem(a, b) == IF a >= 0 THEN a % b ELSE -((-a) % b)

\* <<q, r>> with a * b = q * c + r and 0 <= r < c, for a, b >= 0 and c > 0,
\* computed by doubling so that no intermediate value exceeds 2 * c.
RECURSIVE MulDivRem(_, _, _)
MulDivRem(a, b, c) ==
  IF b = 0 THEN <<0, 0>>
  ELSE LET h   == MulDivRem(a, b \div 2, c)
           c1  == IF h[2] >= c - h[2] THEN 1 ELSE 0
           r2  == IF c1 = 1 THEN h[2] - (c - h[2]) ELSE 2 * h[2]
           q2  == 2 * h[1] + c1
           ra  == a % c
           c2  == IF r2 >= c - ra THEN 1 ELSE 0
           r3  == IF c2 = 1 THEN r2 - (c - ra) ELSE r2 + ra
       IN  IF b % 2 = 0 THEN <<q2, r2>>
           ELSE <<q2 + (a \div c) + c2, r3>>

\* a * b / c rounded toward zero (symmetric in the sign of a), b >= 0, c > 0:
\* directly when the product fits in 32 bits, by doubling over the smaller
\* factor
\* otherwise.
MulDiv(a, b, c) ==
  LET m == Abs(a)
      q == IF m = 0 \/ b <= 2147483647 \div m THEN (m * b) \div c
           ELSE IF m <= b THEN MulDivRem(b, m, c)[1]
           ELSE MulDivRem(m, b, c)[1]
  IN  IF a >= 0 THEN q ELSE -q

\* A natural number too wide for 32 bits, as its base-1000 digits, least
\* significant first (the products of getScaledOrbitRadius's power law).
RECURSIVE BigFromInt(_)
BigFromInt(n) ==
  IF n = 0 THEN << >> ELSE << n % 1000 >> \o BigFromInt(n \div 1000)

RECURSIVE BigAdd(_, _, _)
BigAdd(a, b, carry) ==
  IF a = << >> /\ b = << >>
  THEN (IF carry = 0 THEN << >> ELSE << carry >>)
  ELSE LET x == IF a = << >> THEN 0 ELSE Head(a)
           y == IF b = << >> THEN 0 ELSE Head(b)
           s == x + y + carry
       IN  << s % 1000 >>
             \o BigAdd(IF a = << >> THEN a ELSE Tail(a),
                       IF b = << >> THEN b ELSE Tail(b), s \div 1000)

RECURSIVE BigMulDigit(_, _, _)
BigMulDigit(a, k, carry) ==
  IF a = << >> THEN (IF carry = 0 THEN << >> ELSE << carry >>)
  ELSE LET s == Head(a) * k + carry
       IN  << s % 1000 >> \o BigMulDigit(Tail(a), k, s \div 1000)

RECURSIVE BigMul(_, _)
BigMul(a, b) ==
  IF a = << >> \/ b = << >> THEN << >>
  ELSE BigAdd(BigMulDigit(a, Head(b), 0), << 0 >> \o BigMul(a, Tail(b)), 0)

RECURSIVE BigPow(_, _)
BigPow(a, n) == IF n = 0 THEN << 1 >> ELSE BigMul(a, BigPow(a, n - 1))

\* The digits without leading zeros.
RECURSIVE BigNorm(_)
BigNorm(a) ==
  IF a = << >> THEN a
  ELSE IF a[Len(a)] = 0 THEN BigNorm(SubSeq(a, 1, Len(a) - 1))
  ELSE a

RECURSIVE BigLeqNorm(_, _)
BigLeqNorm(a, b) ==
  IF Len(a) # Len(b) THEN Len(a) < Len(b)
  ELSE IF a = << >> THEN TRUE
  ELSE IF a[Len(a)] # b[Len(b)] THEN a[Len(a)] < b[Len(b)]
  ELSE BigLeqNorm(SubSeq(a, 1, Len(a) - 1), SubSeq(b, 1, Len(b) - 1))

BigLeq(a, b) == BigLeqNorm(BigNorm(a), BigNorm(b))

\* ------------------------------------------------------------------------
\* Orbital element catalog (PlanetData.ts)
\* ------------------------------------------------------------------------

\* AU = 149597870.7 km, in units of 0.1 km.
AU == 1495978707

\* EARTH_RADIUS = 6371 km (the local earthRadius of the scale functions).
EARTH_RADIUS == 6371

\* Scene lengths are held in 1/Unit scene units.
Unit == 10000

\* A moon: radius in metres, orbitalRadius as the km numerator of km / AU,
\* orbitalPeriod in 1/100000 day (sign kept).
Moon(n, r, a, p) ==
  [name |-> n, radius |-> r, orbitalRadius |-> a, orbitalPeriod |-> p]

\* A planet: radius in metres, orbitalRadius in 1/10000 AU, orbitalPeriod as
\* periodNum / periodDen days, rotationPeriod in 1/10000 hour (sign kept),
\* eccentricity in 1/10000, mean longitude at J2000 in 1/100 degree (the
\* table of Planet.getPlanetLongitudeAtEpoch).
Body(n, r, a, pn, pd, rot, e, lon, ms) ==
  [name |-> n, radius |-> r, orbitalRadius |-> a, periodNum |-> pn,
   periodDen |-> pd, rotationPeriod |-> rot, eccentricity |-> e,
   longitude |-> lon, moons |-> ms]

PLANETS ==
  << Body("Mercury", 2439700, 3870, 87969, 1000, 14076000, 2056, 25225, << >>),
     Body("Venus", 6051800, 7230, 224701, 1000, -58325000, 67, 18198, << >>),
     Body("Earth", 6371000, 10000, 365256, 1000, 239345, 167, 10047,
          << Moon("Moon", 1737400, 384400, 2732200) >>),
     Body("Mars", 3389500, 15240, 68698, 100, 246229, 935, 35543,
          << Moon("Phobos", 11267, 9376, 31891),
             Moon("Deimos", 6200, 23463, 126300) >>),
     Body("Jupiter", 69911000, 52040, 433259, 100, 99250, 489, 3435,
          << Moon("Io", 1821600, 421800, 176900),
             Moon("Europa", 1560800, 671034, 355100),
             Moon("Ganymede", 2634100, 1070412, 715500),
             Moon("Callisto", 2410300, 1882709, 1668900) >>),
     Body("Saturn", 58232000, 95826, 1075922, 100, 106560, 565, 5008,
          << Moon("Titan", 2574700, 1221700, 1594500),
             Moon("Enceladus", 252100, 238000, 137000) >>),
     Body("Uranus", 25362000, 192184, 306885, 10, -172400, 463, 31405,
          << Moon("Miranda", 236000, 129900, 141300),
             Moon("Ariel", 579000, 190900, 252000),
             Moon("Umbriel", 585000, 266000, 414400),
             Moon("Titania", 789000, 436300, 870600),
             Moon("Oberon", 761000, 583500, 1346300) >>),
     Body("Neptune", 24622000, 300700, 60195, 1, 161100, 95, 30435,
          << Moon("Triton", 1353400, 354800, -587700) >>) >>

PlanetIds == 1..Len(PLANETS)

MoonIds(p) == 1..Len(PLANETS[p].moons)

\* PLANETS.find(p => p.name === planetName): the index of the first planet
\* of that name, 0 when there is none.
FindPlanet(planetName) ==
  IF \E i \in PlanetIds : PLANETS[i].name = planetName
  THEN CHOOSE i \in PlanetIds :
         /\ PLANETS[i].name = planetName
         /\ \A j \in 1..(i - 1) : PLANETS[j].name # planetName
  ELSE 0

\* ------------------------------------------------------------------------
\* Scale model (PlanetData.ts)
\* ------------------------------------------------------------------------

\* Variant: an unknown name is answered with the first catalog entry.
getPlanetData_DefaultsToFirst(name) ==
  LET i == FindPlanet(name)
  IN  IF i = 0 THEN << PLANETS[1] >> ELSE << PLANETS[i] >>

\* SolarSystem.getPlanetData(name) = PLANETS.find(p => p.name === name):
\* << >> for undefined, else the entry found.
getPlanetData(name) ==
  LET i == FindPlanet(name)
  IN  IF i = 0 THEN << >> ELSE << PLANETS[i] >>

\* Variant: the minimum of 0.2 is left out.
getScaledRadius_NoMinimum(radius, isSun) ==
  IF isSun THEN 5 * Unit
  ELSE (radius * (Unit \div 1000)) \div EARTH_RADIUS

\* getScaledRadius(radius, isSun): 5 for the Sun, else max(0.2, radius/6371).
getScaledRadius(radius, isSun) ==
  IF isSun THEN 5 * Unit
  ELSE Max(Unit \div 5, (radius * (Unit \div 1000)) \div EARTH_RADIUS)

\* getScaledMoonRadius(radius): max(0.05, radius/6371).
getScaledMoonRadius(radius) ==
  Max(Unit \div 20, (radius * (Unit \div 1000)) \div EARTH_RADIUS)

\* radiusAU * factor in scene units, radiusAU = km / AU.
ScaleAU(km, factor) == MulDiv(km * 10, factor * Unit, AU)

\* baseScale chosen from the planet's distance from the Sun.
MoonBaseScale(planet) ==
  IF planet.orbitalRadius <= 15000 THEN 50
  ELSE IF planet.orbitalRadius <= 60000 THEN 80
  ELSE IF planet.orbitalRadius <= 100000 THEN 100
  ELSE IF planet.orbitalRadius <= 200000 THEN 120
  ELSE 150

\* orbitInPlanetRadii < n, with orbitInPlanetRadii = radiusAU * AU / radius.
OrbitInPlanetRadiiBelow(km, planet, n) == km * 1000 < n * planet.radius

\* visibilityMultiplier of the planets other than Earth.
VisibilityMultiplier(km, planet) ==
  IF planet.name = "Mars"
    THEN (IF OrbitInPlanetRadiiBelow(km, planet, 5) THEN 400 ELSE 300)
  ELSE IF planet.name = "Jupiter"
    THEN (IF OrbitInPlanetRadiiBelow(km, planet, 10) THEN 30
          ELSE IF OrbitInPlanetRadiiBelow(km, planet, 20) THEN 25 ELSE 20)
  ELSE IF planet.name = "Saturn"
    THEN (IF OrbitInPlanetRadiiBelow(km, planet, 10) THEN 20 ELSE 8)
  ELSE IF planet.name = "Uranus"
    THEN (IF OrbitInPlanetRadiiBelow(km, planet, 10) THEN 60 ELSE 35)
  ELSE IF planet.name = "Neptune" THEN 12
  ELSE 1

\* maxMoonRadius: the largest scaled moon radius of the planet, 0 without moons.
RECURSIVE MaxMoonRadiusFrom(_, _)
MaxMoonRadiusFrom(moons, i) ==
  IF i > Len(moons) THEN 0
  ELSE Max(getScaledMoonRadius(moons[i].radius), MaxMoonRadiusFrom(moons, i + 1))

\* getScaledMoonOrbitRadius(radiusAU, planetName), radiusAU = km / AU.
getScaledMoonOrbitRadius(km, planetName) ==
  LET i == FindPlanet(planetName) IN
  IF i = 0 THEN Max(Unit, ScaleAU(km, 50))
  ELSE
    LET planet       == PLANETS[i]
        planetRadius == getScaledRadius(planet.radius, FALSE)
        baseScale    == MoonBaseScale(planet)
        safetyMargin == Unit \div 5
        minSafeOrbit == planetRadius + MaxMoonRadiusFrom(planet.moons, 1)
                          + safetyMargin
    IN  IF planetName = "Earth"
        THEN Max(planetRadius + Unit \div 2, ScaleAU(km, baseScale))
        ELSE Max(minSafeOrbit,
                 ScaleAU(km, baseScale * VisibilityMultiplier(km, planet)))

\* Whether y / Unit <= 50 * (d / Unit)^0.8, decided exactly on the fifth
\* powers: y^5 * Unit^4 <= (50 * Unit)^5 * d^4.
BelowPowerLaw(y, d) ==
  BigLeq(BigMul(BigPow(BigFromInt(y), 5), BigPow(BigFromInt(Unit), 4)),
         BigMul(BigPow(BigFromInt(50 * Unit), 5), BigPow(BigFromInt(d), 4)))

\* The greatest y in lo..hi with BelowPowerLaw(y, d), given that lo is one.
RECURSIVE PowerLawSearch(_, _, _)
PowerLawSearch(lo, hi, d) ==
  IF lo >= hi THEN lo
  ELSE LET mid == (lo + hi + 1) \div 2
       IN  IF BelowPowerLaw(mid, d) THEN PowerLawSearch(mid, hi, d)
           ELSE PowerLawSearch(lo, mid - 1, d)

\* Variant: the scaled distance is capped at 500 units to keep the outer
\* planets near.
getScaledOrbitRadius_Capped(auDistance) ==
  LET y == PowerLawSearch(0, 50 * (auDistance + Unit), auDistance)
  IN  IF y > 500 * Unit THEN 500 * Unit ELSE y

\* getScaledOrbitRadius(auDistance) = baseScale * Math.pow(auDistance, 0.8),
\* baseScale = 50; auDistance in 1/Unit AU, the result in 1/Unit scene units,
\* rounded down.
getScaledOrbitRadius(auDistance) ==
  PowerLawSearch(0, 50 * (auDistance + Unit), auDistance)

\* The earlier, linear getScaledOrbitRadius: auDistance * 30.
getScaledOrbitRadius_linear(auDistance) == auDistance * 30

\* ------------------------------------------------------------------------
\* Keplerian propagator (Planet.ts)
\* ------------------------------------------------------------------------

\* J2000.0, the Julian day 2451545.0 that reference dates are measured from.
J2000 == 2451545

\* 365.25, the divisor of calculateOrbitAngleForDate's mean motion, times 4.
FourJulianYears == 1461

\* 24 * 3600, the seconds of a day.
SecondsPerDay == 86400

\* One revolution (2 * Math.PI) of planet p's orbital angle, in ticks.
Rev(p) == PLANETS[p].periodNum * FourJulianYears

\* Planet.getPlanetLongitudeAtEpoch: degToRad of the tabulated longitude.
getPlanetLongitudeAtEpoch(p) == MulDiv(PLANETS[p].longitude, Rev(p), 36000)

\* The body of Planet.calculateOrbitAngleForDate for a date given by its
\* days since J2000 in units of 1 / periodDen day (n = days * periodDen):
\*   meanMotion = 2*pi / (orbitalPeriod * 365.25)
\*              = Rev(p) / (periodNum / periodDen * 1461 / 4)
\*              = 4 * periodDen ticks a day, so meanMotion * days = 4 * n
\*   (longitudeAtEpoch + meanMotion * daysSinceJ2000) % (2*pi)
OrbitAngleForDays(p, n) ==
  JsRem(getPlanetLongitudeAtEpoch(p) + 4 * n, Rev(p))

\* Planet.calculateOrbitAngleForDate(julianDay), julianDay a whole day.
calculateOrbitAngleForDate(p, julianDay) ==
  LET daysSinceJ2000 == julianDay - J2000
  IN  OrbitAngleForDays(p, daysSinceJ2000 * PLANETS[p].periodDen)

\* time * orbitalSpeed, orbitalSpeed = 2*pi / (orbitalPeriod * 24 * 3600):
\* Rev(p) / (periodNum / periodDen * 86400) = 1461 * periodDen / 86400 ticks
\* a second.
OrbitAdvance(p, time) ==
  MulDiv(time, FourJulianYears * PLANETS[p].periodDen, SecondsPerDay)

\* Variant: the advance runs at calculateOrbitAngleForDate's mean motion,
\* 2*pi / (orbitalPeriod * 365.25) a day.
OrbitAdvanceForDays_PerJulianYear(p, n) == 4 * n

\* time * orbitalSpeed for an elapsed time of n / periodDen days (a planet's
\* period is a whole number of these, not always of seconds):
\*   time = n * 86400 / periodDen seconds,
\*   time * orbitalSpeed = n * 86400 / periodDen * 1461 * periodDen / 86400
\*                       = 1461 * n ticks.
OrbitAdvanceForDays(p, n) == FourJulianYears * n

\* Planet.updatePosition: group.position as a function of the mean anomaly
\* M = orbitAngle (periodic in M with period 2*pi, injective within it).
updatePosition(p, orbitAngle) == orbitAngle % Rev(p)

\* group.position after Planet.update at an elapsed time of n / periodDen
\* days: orbitAngle = initialOrbitAngle + time * orbitalSpeed, updatePosition.
PositionAfterDays(p, pl, n) ==
  updatePosition(p, pl.initialOrbitAngle + OrbitAdvanceForDays(p, n))

\* The same at an elapsed time of whole seconds.
PositionAfterSeconds(p, pl, time) ==
  updatePosition(p, pl.initialOrbitAngle + OrbitAdvance(p, time))

\* One revolution of a rotation angle: |rotationPeriod| hours in centiseconds.
RotRev(p) == Abs(PLANETS[p].rotationPeriod) * 36

\* Variant: the rotation direction is left out.
RotationAngle_NoDirection(p, time) ==
  MulDiv(time * 100, RotRev(p), Abs(PLANETS[p].rotationPeriod) * 36)

\* rotationAngle = time * rotationSpeed * rotationDirection,
\* rotationSpeed = 2*pi / (|rotationPeriod| * 3600).
RotationAngle(p, time) ==
  LET rotationDirection == IF PLANETS[p].rotationPeriod < 0 THEN -1 ELSE 1
  IN  MulDiv(time * 100, RotRev(p), Abs(PLANETS[p].rotationPeriod) * 36)
        * rotationDirection

\* One revolution of a moon's angle: |orbitalPeriod| days, in ticks of 2 ms.
MoonRev(moon) == Abs(moon.orbitalPeriod) * 432

\* moonAngle = time * moonOrbitSpeed,
\* moonOrbitSpeed = 2*pi / (Math.abs(orbitalPeriod) * 24 * 3600).
MoonAngle(moon, time) ==
  MulDiv(time * 500, MoonRev(moon), Abs(moon.orbitalPeriod) * 432)

\* getScaledMoonOrbitRadius(moonData.orbitalRadius, this.name) of every
\* catalog moon (a pure function of the catalog, evaluated once).
MoonOrbitRadii ==
  [p \in PlanetIds |->
     [m \in MoonIds(p) |->
        getScaledMoonOrbitRadius(PLANETS[p].moons[m].orbitalRadius,
                                 PLANETS[p].name)]]

\* moon.position (x, z) = (cos, sin)(moonAngle) * moonOrbitRadius, with
\* moonOrbitRadius = getScaledMoonOrbitRadius(...) * currentScale.
MoonPosition(p, m, moonAngle, currentScale) ==
  [angle  |-> moonAngle % MoonRev(PLANETS[p].moons[m]),
   radius |-> MoonOrbitRadii[p][m] * currentScale]

\* new Planet(data, scene, scale): the fields after construction.
NewPlanet(p, scale) ==
  LET initial == calculateOrbitAngleForDate(p, J2000)
  IN  [referenceJD       |-> J2000,
       initialOrbitAngle |-> initial,
       orbitAngle        |-> initial,
       rotationAngle     |-> 0,
       baseScale         |-> scale,
       currentScale      |-> scale,
       radius            |-> getScaledRadius(PLANETS[p].radius, FALSE) * scale,
       position          |-> updatePosition(p, initial),
       moons             |-> [m \in MoonIds(p) |-> MoonPosition(p, m, 0, scale)]]

\* Planet.update(delta, time) applied to the planet's fields pl.
PlanetUpdate(p, pl, time) ==
  LET orbitAngle == pl.initialOrbitAngle + OrbitAdvance(p, time)
  IN  [pl EXCEPT
         !.orbitAngle    = orbitAngle,
         !.position      = updatePosition(p, orbitAngle),
         !.rotationAngle = RotationAngle(p, time),
         !.moons         = [m \in MoonIds(p) |->
                              MoonPosition(p, m,
                                MoonAngle(PLANETS[p].moons[m], time),
                                pl.currentScale)]]

\* The transform writes of one Planet.update, in program order: the
\* planet's own position, its rotation, then its moons by index.
RECURSIVE MoonWrites(_, _, _)
MoonWrites(p, m, time) ==
  IF m > Len(PLANETS[p].moons) THEN << >>
  ELSE << [body |-> PLANETS[p].moons[m].name, parent |-> PLANETS[p].name,
           time |-> time] >>
         \o MoonWrites(p, m + 1, time)

\* Variant: a planet's moons are written before the planet's own position.
PlanetWrites_MoonsFirst(p, time) ==
  MoonWrites(p, 1, time)
    \o << [body |-> PLANETS[p].name, parent |-> "Sun", time |-> time] >>

PlanetWrites(p, time) ==
  << [body |-> PLANETS[p].name, parent |-> "Sun", time |-> time] >>
    \o MoonWrites(p, 1, time)

\* this.planets.forEach(planet => planet.update(delta, this.currentTime)).
RECURSIVE UpdateWrites(_, _)
UpdateWrites(p, time) ==
  IF p > Len(PLANETS) THEN << >>
  ELSE PlanetWrites(p, time) \o UpdateWrites(p + 1, time)

\* Variant: the planet recomputes its angle but keeps its old referenceJD.
PlanetSetReferenceDate_KeepsJD(p, pl, julianDay) ==
  LET initial == calculateOrbitAngleForDate(p, julianDay)
  IN  [pl EXCEPT !.initialOrbitAngle = initial,
                 !.orbitAngle = initial]

\* Planet.setReferenceDate(julianDay).
PlanetSetReferenceDate(p, pl, julianDay) ==
  LET initial == calculateOrbitAngleForDate(p, julianDay)
  IN  [pl EXCEPT !.referenceJD = julianDay,
                 !.initialOrbitAngle = initial,
                 !.orbitAngle = initial]

\* Variant: rescaling puts the planet back at its epoch angle.
PlanetSetScale_BackToEpoch(p, pl, scale) ==
  [pl EXCEPT !.currentScale = scale,
             !.radius = getScaledRadius(PLANETS[p].radius, FALSE) * scale,
             !.orbitAngle = pl.initialOrbitAngle,
             !.position = updatePosition(p, pl.initialOrbitAngle)]

\* Planet.setScale(scale).
PlanetSetScale(p, pl, scale) ==
  [pl EXCEPT !.currentScale = scale,
             !.radius = getScaledRadius(PLANETS[p].radius, FALSE) * scale]

\* Planet.setRealisticScale(realistic).
PlanetSetRealisticScale(p, pl, realistic) ==
  IF realistic THEN PlanetSetScale(p, pl, 1)
  ELSE PlanetSetScale(p, pl, pl.baseScale)

\* ------------------------------------------------------------------------
\* Asteroid field (AsteroidBelt.ts)
\* ------------------------------------------------------------------------

\* Math.random() returns k / RandomDen, 0 <= k < RandomDen.
RandomDen == 20

\* 365.256 days to the year, in 1/1000 day.
YearMilliDays == 365256

\* Scene units to the AU in the belt's own conversion (2.2 * 80, r / 80).
BeltUnitsPerAU == 80

\* this.innerRadius = 2.2 * 80 and this.outerRadius = 3.3 * 80.
BeltInnerRadius == (22 * BeltUnitsPerAU * Unit) \div 10

BeltOuterRadius == (33 * BeltUnitsPerAU * Unit) \div 10

\* Whether P (1/1000 day) is at most
\* Math.sqrt(Math.pow(orbitalRadius / 80, 3)) * 365.256, decided exactly on
\* the squares: P^2 * (80 * Unit)^3 <= orbitalRadius^3 * 365256^2.
BelowKeplerPeriod(P, orbitalRadius) ==
  BigLeq(BigMul(BigPow(BigFromInt(P), 2),
                BigPow(BigFromInt(BeltUnitsPerAU * Unit), 3)),
         BigMul(BigPow(BigFromInt(orbitalRadius), 3),
                BigPow(BigFromInt(YearMilliDays), 2)))

RECURSIVE KeplerSearch(_, _, _)
KeplerSearch(lo, hi, orbitalRadius) ==
  IF lo >= hi THEN lo
  ELSE LET mid == (lo + hi + 1) \div 2
       IN  IF BelowKeplerPeriod(mid, orbitalRadius)
           THEN KeplerSearch(mid, hi, orbitalRadius)
           ELSE KeplerSearch(lo, mid - 1, orbitalRadius)

\* Variant: the speed falls with the square root of the radius only (period
\* proportional to r^0.5), as in 0.5 / Math.sqrt(orbitalRadius / 30).
asteroidOrbitalPeriod_SqrtLaw(orbitalRadius) ==
  MulDiv(KeplerSearch(0, 6 * YearMilliDays, orbitalRadius),
         BeltUnitsPerAU * Unit, orbitalRadius)

\* orbitalPeriodDays of generateAsteroids, in 1/1000 day rounded down; the
\* asteroid's orbitalSpeed is 2*pi / (orbitalPeriodDays * 24 * 3600).
asteroidOrbitalPeriod(orbitalRadius) ==
  KeplerSearch(0, 6 * YearMilliDays, orbitalRadius)

\* One revolution of an asteroid's angle: its period in ticks of 0.1 s.
AsteroidRev(orbitalPeriod) == orbitalPeriod * 864

\* The inclination (1/100 degree) drawn by generateAsteroids from the two
\* random numbers inclinationRandom and random: (random - 0.5) times 10, 30
\* or 60 degrees.
asteroidInclination(inclinationRandom, random) ==
  LET spread == IF 10 * inclinationRandom < 7 * RandomDen THEN 10
                ELSE IF 100 * inclinationRandom < 95 * RandomDen THEN 30
                ELSE 60
  IN  ((2 * random - RandomDen) * spread * 100) \div (2 * RandomDen)

\* asteroid.position as a function of the angle, the radius and the
\* inclination: (cos, tan(inclination), sin) * orbitalRadius.
AsteroidPosition(angle, asteroid) ==
  [angle       |-> angle % AsteroidRev(asteroid.orbitalPeriod),
   radius      |-> asteroid.orbitalRadius,
   inclination |-> asteroid.inclination]

\* Variant: the radius is drawn around the outer edge of the belt.
generateAsteroid_AroundOuterEdge(draw) ==
  LET orbitalRadius ==
        BeltOuterRadius
          + ((2 * draw.radius - RandomDen)
               * (BeltOuterRadius - BeltInnerRadius)) \div (2 * RandomDen)
      orbitalPeriod == asteroidOrbitalPeriod(orbitalRadius)
      data == [orbitalRadius |-> orbitalRadius,
               orbitalPeriod |-> orbitalPeriod,
               initialAngle  |-> MulDiv(draw.angle,
                                        AsteroidRev(orbitalPeriod), RandomDen),
               inclination   |-> asteroidInclination(draw.tier, draw.incl),
               scale         |-> Unit \div 2
                                   + (draw.scale * 2 * Unit) \div RandomDen]
  IN  [data |-> data, position |-> AsteroidPosition(data.initialAngle, data)]

\* One pass of the loop of generateAsteroids with the random numbers
\* draw.radius, draw.angle, draw.tier, draw.incl and draw.scale (the
\* rotationSpeed drawn is never read and is left out).
generateAsteroid(draw) ==
  LET orbitalRadius ==
        BeltInnerRadius
          + (draw.radius * (BeltOuterRadius - BeltInnerRadius)) \div RandomDen
      orbitalPeriod == asteroidOrbitalPeriod(orbitalRadius)
      data == [orbitalRadius |-> orbitalRadius,
               orbitalPeriod |-> orbitalPeriod,
               initialAngle  |-> MulDiv(draw.angle,
                                        AsteroidRev(orbitalPeriod), RandomDen),
               inclination   |-> asteroidInclination(draw.tier, draw.incl),
               scale         |-> Unit \div 2
                                   + (draw.scale * 2 * Unit) \div RandomDen]
  IN  [data |-> data, position |-> AsteroidPosition(data.initialAngle, data)]

\* updateInstanceMatrices: the instance matrix of every asteroid, from its
\* position and scale.
updateInstanceMatrices(asteroids) ==
  [i \in DOMAIN asteroids |->
     [position |-> asteroids[i].position, scale |-> asteroids[i].data.scale]]

\* new AsteroidBelt(scene, count) with the random numbers draws[1..count].
NewAsteroidBelt(draws) ==
  LET asteroids == [i \in DOMAIN draws |-> generateAsteroid(draws[i])]
  IN  [isVisible      |-> FALSE,
       meshVisible    |-> FALSE,
       asteroids      |-> asteroids,
       instanceMatrix |-> updateInstanceMatrices(asteroids)]

\* The belt with other asteroids generated in place of b's.
WithAsteroids(b, asteroids) ==
  [b EXCEPT !.asteroids = asteroids,
            !.instanceMatrix = updateInstanceMatrices(asteroids)]

\* AsteroidBelt.setVisible(visible) applied to the belt b.
AsteroidBeltSetVisible(b, visible) ==
  [b EXCEPT !.isVisible = visible, !.meshVisible = visible]

\* Variant: the angle is advanced from the asteroid's current position
\* instead of its initial angle.
AsteroidsAt_FromCurrentAngle(b, time) ==
  LET asteroids ==
        [i \in DOMAIN b.asteroids |->
           [b.asteroids[i] EXCEPT
              !.position =
                 AsteroidPosition(b.asteroids[i].position.angle + time * 10,
                                  b.asteroids[i].data)]]
  IN  [b EXCEPT !.asteroids = asteroids,
                !.instanceMatrix = updateInstanceMatrices(asteroids)]

\* The loop of AsteroidBelt.update: every asteroid moved to
\* initialAngle + time * orbitalSpeed, then updateInstanceMatrices.
AsteroidsAt(b, time) ==
  LET asteroids ==
        [i \in DOMAIN b.asteroids |->
           [b.asteroids[i] EXCEPT
              !.position =
                 AsteroidPosition(b.asteroids[i].data.initialAngle + time * 10,
                                  b.asteroids[i].data)]]
  IN  [b EXCEPT !.asteroids = asteroids,
                !.instanceMatrix = updateInstanceMatrices(asteroids)]

\* Variant: the early return for an invisible field is left out.
AsteroidBeltUpdate_AlwaysRecomputes(b, delta, time) == AsteroidsAt(b, time)

\* Variant: a visible field is advanced by the frame's delta from where it
\* stands, so that frames skipped while hidden are lost.
AsteroidBeltUpdate_AdvancesByDelta(b, delta, time) ==
  IF ~b.isVisible THEN b
  ELSE LET asteroids ==
             [i \in DOMAIN b.asteroids |->
                [b.asteroids[i] EXCEPT
                   !.position =
                      AsteroidPosition(
                        b.asteroids[i].position.angle + delta * 10,
                        b.asteroids[i].data)]]
       IN  [b EXCEPT !.asteroids = asteroids,
                     !.instanceMatrix = updateInstanceMatrices(asteroids)]

\* AsteroidBelt.update(delta, time) applied to the belt b.
AsteroidBeltUpdate(b, delta, time) ==
  IF ~b.isVisible THEN b ELSE AsteroidsAt(b, time)

\* ------------------------------------------------------------------------
\* The Sun's spin and the orbit lines (SolarSystem.ts)
\* ------------------------------------------------------------------------

\* SUN_DATA.rotationPeriod = 24.47 days, in 1/100 day.
SunRotationPeriod == 2447

\* One revolution of sun.rotation.y, in ticks of one simulated second:
\* rotationPeriod * 24 * 3600.
SunRev == SunRotationPeriod * 864

\* delta * this.timeScale * sunRotationRate,
\* sunRotationRate = 2*pi / (SUN_DATA.rotationPeriod * 24 * 3600).
SunAdvance(delta, scale) ==
  MulDiv(delta * scale, SunRev, SunRotationPeriod * 864)

\* sun.rotation.y is <<ticks>>, or << >> where a specification does not
\* follow the Sun's spin: an angle not followed stays so under +=.
NotFollowed == << >>

\* this.sun.rotation.y += advance.
SunPlus(rotationY, advance) ==
  IF rotationY = NotFollowed THEN NotFollowed
  ELSE << rotationY[1] + advance >>

\* const trailLength = 60 of createTrailOrbit.
trailLength == 60

\* new THREE.Vector3(0, 0, 0); a point on a planet's orbit is <<position>>.
Origin == << >>

\* The line createStaticOrbit(planetData, orbitRadius) pushes: userData and
\* visible (its 201 circle points are a function of orbitRadius).
createStaticOrbit(p, show) ==
  [planetName  |-> PLANETS[p].name,
   mode        |-> "static",
   visible     |-> show,
   trailLength |-> 0,
   trailPoints |-> << >>,
   positions   |-> << >>]

\* The line createTrailOrbit(planetData, orbitRadius) pushes: userData,
\* visible and the position buffer of trailLength points at the origin.
createTrailOrbit(p, show) ==
  [planetName  |-> PLANETS[p].name,
   mode        |-> "trails",
   visible     |-> show,
   trailLength |-> trailLength,
   trailPoints |-> << >>,
   positions   |-> [i \in 1..trailLength |-> Origin]]

\* createOrbitsForMode: PLANETS.forEach pushes one line per catalog entry.
createOrbitsForMode(mode, show) ==
  [p \in PlanetIds |->
     IF mode = "static" THEN createStaticOrbit(p, show)
     ELSE createTrailOrbit(p, show)]

\* Variant: the trail grows by one point an update and is never cut.
updateOrbitTrail_NeverCut(orbit, localPlanetPos) ==
  IF orbit.mode # "trails" THEN orbit
  ELSE LET initialized == IF orbit.trailPoints = << >>
                          THEN [i \in 1..orbit.trailLength |-> localPlanetPos]
                          ELSE orbit.trailPoints
           unshifted   == << localPlanetPos >> \o initialized
       IN  [orbit EXCEPT !.trailPoints = unshifted,
                         !.positions = SubSeq(unshifted, 1, orbit.trailLength)]

\* The body of updateOrbitTrails's forEach for one orbit line, with the
\* planet's position in the line's local space.
updateOrbitTrail(orbit, localPlanetPos) ==
  IF orbit.mode # "trails" THEN orbit
  ELSE LET initialized == IF orbit.trailPoints = << >>
                          THEN [i \in 1..orbit.trailLength |-> localPlanetPos]
                          ELSE orbit.trailPoints
           unshifted   == << localPlanetPos >> \o initialized
           sliced      == IF Len(unshifted) > orbit.trailLength
                          THEN SubSeq(unshifted, 1, orbit.trailLength)
                          ELSE unshifted
           written     == IF Len(sliced) < orbit.trailLength
                          THEN Len(sliced) ELSE orbit.trailLength
       IN  [orbit EXCEPT
              !.trailPoints = sliced,
              !.positions = [i \in 1..Len(orbit.positions) |->
                               IF i <= written THEN sliced[i]
                               ELSE orbit.positions[i]]]

\* SolarSystem.updateOrbitTrails: orbit line index follows planets[index].
updateOrbitTrails(os, pls) ==
  [index \in DOMAIN os |->
     updateOrbitTrail(os[index], << pls[index].position >>)]

\* ------------------------------------------------------------------------
\* Bounds of the model
\* ------------------------------------------------------------------------

\* Frame deltas are 1..MaxDelta seconds.
MaxDelta == 1

\* The speed slider takes the values 20 * k, k in -MaxSliderStep..MaxSliderStep.
MaxSliderStep == 1

\* |currentTime| stays within MaxTime seconds.
MaxTime == 10

\* The date picker offers 31 December 1999 and 1..MaxDay January 2000.
MaxDay == 1

\* setPlanetScale is called with the scales MaxPlanetScale - 1 and
\* MaxPlanetScale.
MaxPlanetScale == 3

Deltas == 1..MaxDelta

SliderValues == {20 * k : k \in (-MaxSliderStep)..MaxSliderStep}

Dates == {<<1999, 12, 31>>} \cup {<<2000, 1, d>> : d \in 1..MaxDay}

PlanetScales == (MaxPlanetScale - 1)..MaxPlanetScale

\* ------------------------------------------------------------------------
\* State
\* ------------------------------------------------------------------------

VARIABLES
  isPaused,       \* TimeControls.isPaused
  tc_timeScale,   \* TimeControls.timeScale, the user's chosen speed
  timeScale,      \* SolarSystem.timeScale, the scale in effect
  currentTime,    \* SolarSystem.currentTime, seconds since the reference date
  referenceJD,    \* SolarSystem.referenceJD
  planetScale,    \* SolarSystem.planetScale
  planets,        \* SolarSystem.planets: one Planet per catalog entry
  lastCall,       \* the handler that ran last
  lastSetScale,   \* the argument of the most recent setTimeScale call
  tickSum,        \* sum of delta * scale in effect since the last re-anchoring
  writeLog,       \* the transform writes of the last update, in order
  probe,          \* a pure function's inputs and results
  belt,           \* the AsteroidBelt: isVisible, asteroids, instanceMatrix
  sunRotationY,   \* SolarSystem.sun.rotation.y
  showOrbits,     \* SolarSystem.showOrbits
  orbitMode,      \* SolarSystem.orbitMode
  orbits,         \* SolarSystem.orbits: the orbit lines, in creation order
  realisticScale  \* the argument of the most recent setRealisticScale call

clock == <<isPaused, tc_timeScale, timeScale, currentTime, referenceJD,
           lastSetScale, tickSum>>

display == <<showOrbits, orbitMode, orbits, realisticScale>>

scene == <<planetScale, planets, writeLog, sunRotationY, display>>

vars == <<isPaused, tc_timeScale, timeScale, currentTime, referenceJD,
          planetScale, planets, lastCall, lastSetScale,
          tickSum, writeLog, probe, belt, sunRotationY, showOrbits,
          orbitMode, orbits, realisticScale>>

\* The state after new SolarSystem(scene) and new TimeControls(solarSystem).
InitProgram ==
  /\ isPaused = FALSE
  /\ tc_timeScale = 1
  /\ timeScale = 1
  /\ currentTime = 0
  /\ referenceJD = J2000
  /\ planetScale = 3
  /\ planets = [p \in PlanetIds |-> NewPlanet(p, 3)]
  /\ lastCall = "constructor"
  /\ lastSetScale = 1
  /\ tickSum = 0
  /\ writeLog = << >>
  /\ showOrbits = TRUE
  /\ orbitMode = "static"
  /\ orbits = createOrbitsForMode("static", TRUE)
  /\ realisticScale = FALSE

\* The SolarSystem of SolarSystem.ts constructs no asteroid belt.
NoAsteroidBelt == NewAsteroidBelt(<< >>)

\* The clock and the planets are followed; the Sun's spin is not.
Init ==
  /\ InitProgram
  /\ sunRotationY = NotFollowed
  /\ probe = [kind |-> "none"]
  /\ belt = NoAsteroidBelt

\* ------------------------------------------------------------------------
\* Time controller (TimeControls.ts, SolarSystem.ts)
\* ------------------------------------------------------------------------

\* SolarSystem.setTimeScale(scale).
setTimeScale(scale) ==
  /\ timeScale' = scale
  /\ lastSetScale' = scale

\* Variant: pausing flips the flag but leaves the scale in effect alone.
togglePlayPause_KeepsScale ==
  /\ lastCall' = "togglePlayPause"
  /\ isPaused' = ~isPaused
  /\ IF isPaused' THEN UNCHANGED <<timeScale, lastSetScale>>
                  ELSE setTimeScale(tc_timeScale)
  /\ UNCHANGED <<tc_timeScale, currentTime, referenceJD, tickSum, scene,
                 probe, belt>>

\* TimeControls.togglePlayPause.
togglePlayPause ==
  /\ lastCall' = "togglePlayPause"
  /\ isPaused' = ~isPaused
  /\ IF isPaused' THEN setTimeScale(0) ELSE setTimeScale(tc_timeScale)
  /\ UNCHANGED <<tc_timeScale, currentTime, referenceJD, tickSum, scene,
                 probe, belt>>

\* Math.pow(10, n) for a whole n >= 0.
RECURSIVE Pow10(_)
Pow10(n) == IF n = 0 THEN 1 ELSE 10 * Pow10(n - 1)

\* The time scale TimeControls.onTimeSpeedChange derives from the slider
\* value (a multiple of 20, so that the power of ten is whole).
SliderTimeScale(value) ==
  IF value = 0 THEN 1
  ELSE IF value > 0 THEN Pow10(value \div 20)
  ELSE -Pow10((-value) \div 20)

\* Variant: a speed chosen while paused is applied at once.
onTimeSpeedChange_AppliesWhilePaused(value) ==
  /\ lastCall' = "onTimeSpeedChange"
  /\ tc_timeScale' = SliderTimeScale(value)
  /\ setTimeScale(tc_timeScale')
  /\ UNCHANGED <<isPaused, currentTime, referenceJD, tickSum, scene,
                 probe, belt>>

\* TimeControls.onTimeSpeedChange with slider.value = value.
onTimeSpeedChange(value) ==
  /\ lastCall' = "onTimeSpeedChange"
  /\ tc_timeScale' = SliderTimeScale(value)
  /\ IF ~isPaused THEN setTimeScale(tc_timeScale')
                  ELSE UNCHANGED <<timeScale, lastSetScale>>
  /\ UNCHANGED <<isPaused, currentTime, referenceJD, tickSum, scene,
                 probe, belt>>

\* Math.floor(a / b) for b > 0.
Floor(a, b) == a \div b

\* Variant: the conversion of the Julian calendar, without the century
\* corrections.
dateToJulianDay_JulianCalendar(date) ==
  LET a == Floor(14 - date[2], 12)
      y == date[1] + 4800 - a
      m == date[2] + 12 * a - 3
  IN  date[3] + Floor(153 * m + 2, 5) + 365 * y + Floor(y, 4) - 32083

\* TimeControls.dateToJulianDay(date), date = <<year, month 1..12, day>>.
dateToJulianDay(date) ==
  LET a == Floor(14 - date[2], 12)
      y == date[1] + 4800 - a
      m == date[2] + 12 * a - 3
  IN  date[3] + Floor(153 * m + 2, 5) + 365 * y
        + Floor(y, 4) - Floor(y, 100) + Floor(y, 400) - 32045

\* SolarSystem.setReferenceDate(julianDay).
setReferenceDate(julianDay) ==
  /\ referenceJD' = julianDay
  /\ currentTime' = 0
  /\ tickSum' = 0
  /\ planets' = [p \in PlanetIds |->
                   PlanetSetReferenceDate(p, planets[p], julianDay)]

\* TimeControls.onDateChange with the picked date.
onDateChange(date) ==
  /\ lastCall' = "onDateChange"
  /\ setReferenceDate(dateToJulianDay(date))
  /\ UNCHANGED <<isPaused, tc_timeScale, timeScale, lastSetScale,
                 planetScale, writeLog, probe, belt, sunRotationY, display>>

\* ------------------------------------------------------------------------
\* Body update loop (SolarSystem.ts)
\* ------------------------------------------------------------------------

\* Variant: a negative time scale is clamped to 0 when time is advanced.
update_ClampsScale(delta) ==
  /\ lastCall' = "update"
  /\ Abs(currentTime + delta * Max(timeScale, 0)) <= MaxTime
  /\ sunRotationY' = SunPlus(sunRotationY, SunAdvance(delta, timeScale))
  /\ currentTime' = currentTime + delta * Max(timeScale, 0)
  /\ tickSum' = tickSum + delta * lastSetScale
  /\ planets' = [p \in PlanetIds |-> PlanetUpdate(p, planets[p], currentTime')]
  /\ writeLog' = UpdateWrites(1, currentTime')
  /\ orbits' = IF showOrbits /\ orbitMode = "trails"
               THEN updateOrbitTrails(orbits, planets')
               ELSE orbits
  /\ UNCHANGED <<isPaused, tc_timeScale, timeScale, referenceJD, lastSetScale,
                 planetScale, probe, belt, showOrbits, orbitMode,
                 realisticScale>>

\* SolarSystem.update(delta), called once a frame by animate().
update(delta) ==
  /\ lastCall' = "update"
  /\ Abs(currentTime + delta * timeScale) <= MaxTime
  /\ sunRotationY' = SunPlus(sunRotationY, SunAdvance(delta, timeScale))
  /\ currentTime' = currentTime + delta * timeScale
  /\ tickSum' = tickSum + delta * lastSetScale
  /\ planets' = [p \in PlanetIds |-> PlanetUpdate(p, planets[p], currentTime')]
  /\ writeLog' = UpdateWrites(1, currentTime')
  /\ orbits' = IF showOrbits /\ orbitMode = "trails"
               THEN updateOrbitTrails(orbits, planets')
               ELSE orbits
  /\ UNCHANGED <<isPaused, tc_timeScale, timeScale, referenceJD, lastSetScale,
                 planetScale, probe, belt, showOrbits, orbitMode,
                 realisticScale>>

\* SolarSystem.setPlanetScale(scale).
setPlanetScale(scale) ==
  /\ lastCall' = "setPlanetScale"
  /\ planetScale' = scale
  /\ planets' = [p \in PlanetIds |-> PlanetSetScale(p, planets[p], scale)]
  /\ UNCHANGED <<clock, writeLog, probe, belt, sunRotationY, display>>

Next ==
  \/ togglePlayPause
  \/ \E value \in SliderValues : onTimeSpeedChange(value)
  \/ \E date \in Dates : onDateChange(date)
  \/ \E delta \in Deltas : update(delta)
  \/ \E scale \in PlanetScales : setPlanetScale(scale)

Spec == Init /\ [][Next]_vars

\* ------------------------------------------------------------------------
\* Pure functions of the propagator and the scale model, applied to inputs
\* drawn from bounded sets
\* ------------------------------------------------------------------------

\* Probed reference days lie within MaxProbeDays of J2000 and probed
\* elapsed times are 1..MaxProbeDays whole days.
MaxProbeDays == 2

\* A planet as constructed and then re-anchored by setReferenceDate(julianDay).
AnchoredPlanet(p, julianDay) ==
  PlanetSetReferenceDate(p, NewPlanet(p, 3), julianDay)

OrbitProbes ==
  [kind : {"orbit"}, planet : PlanetIds,
   day : (J2000 - MaxProbeDays)..(J2000 + MaxProbeDays),
   days : 1..MaxProbeDays, done : {FALSE},
   moved : {0}, anchored : {0}, epoch : {0}, epochNextPeriod : {0}]

MoonProbes ==
  UNION {[kind : {"moons"}, planet : {p}, m1 : MoonIds(p), m2 : MoonIds(p),
          done : {FALSE}, orbit1 : {0}, orbit2 : {0}, clearance1 : {0}]
         : p \in PlanetIds}

\* Anchor at probe.day and advance by probe.days * 86400 seconds; anchor at
\* probe.day + probe.days and do not advance; the epoch angles of two
\* reference dates one orbital period apart.
ProbeOrbit ==
  /\ probe.kind = "orbit" /\ ~probe.done
  /\ LET p == probe.planet
         n == (probe.day - J2000) * PLANETS[p].periodDen
     IN  probe' =
           [probe EXCEPT
              !.done = TRUE,
              !.moved = PlanetUpdate(p, AnchoredPlanet(p, probe.day),
                                     probe.days * SecondsPerDay).position,
              !.anchored = PlanetUpdate(p,
                             AnchoredPlanet(p, probe.day + probe.days),
                             0).position,
              !.epoch = updatePosition(p, OrbitAngleForDays(p, n)),
              !.epochNextPeriod =
                 updatePosition(p,
                   OrbitAngleForDays(p, n + PLANETS[p].periodNum))]
  /\ UNCHANGED <<clock, scene, lastCall, belt>>

\* The safety margin a moon's orbit keeps from the two bodies: 0.5 for
\* Earth, 0.2 for the other planets.
SafetyMargin(planetName) ==
  IF planetName = "Earth" THEN Unit \div 2 ELSE Unit \div 5

\* The scaled orbits of two moons of one planet, and the clearance the
\* first needs: the two scaled body radii and the margin.
ProbeMoons ==
  /\ probe.kind = "moons" /\ ~probe.done
  /\ LET planet == PLANETS[probe.planet]
         moon1  == planet.moons[probe.m1]
         moon2  == planet.moons[probe.m2]
     IN  probe' =
           [probe EXCEPT
              !.done = TRUE,
              !.orbit1 = getScaledMoonOrbitRadius(moon1.orbitalRadius,
                                                  planet.name),
              !.orbit2 = getScaledMoonOrbitRadius(moon2.orbitalRadius,
                                                  planet.name),
              !.clearance1 = getScaledRadius(planet.radius, FALSE)
                               + getScaledRadius(moon1.radius, FALSE)
                               + SafetyMargin(planet.name)]
  /\ UNCHANGED <<clock, scene, lastCall, belt>>

\* Probed AU distances: the first MaxOrbitStep steps of 1/Unit AU from 0,
\* the first MaxOrbitStep whole AU, the planets' orbital radii and the belt's
\* 2.2 and 3.3 AU.
MaxOrbitStep == 2

OrbitDistances ==
  (0..MaxOrbitStep) \cup {k * Unit : k \in 1..MaxOrbitStep}
    \cup {PLANETS[p].orbitalRadius : p \in PlanetIds}
    \cup {22000, 33000}

OrbitScaleProbes ==
  {pr \in [kind : {"orbitScale"}, d1 : OrbitDistances, d2 : OrbitDistances,
           done : {FALSE}, linear1 : {0}, linear2 : {0},
           power1 : {0}, power2 : {0}, powerAtOneAU : {0}] : pr.d1 < pr.d2}

\* Both scaling policies applied to two AU distances d1 < d2, and the
\* power law applied to 1 AU.
ProbeOrbitScale ==
  /\ probe.kind = "orbitScale" /\ ~probe.done
  /\ probe' = [probe EXCEPT
                 !.done = TRUE,
                 !.linear1 = getScaledOrbitRadius_linear(probe.d1),
                 !.linear2 = getScaledOrbitRadius_linear(probe.d2),
                 !.power1 = getScaledOrbitRadius(probe.d1),
                 !.power2 = getScaledOrbitRadius(probe.d2),
                 !.powerAtOneAU = getScaledOrbitRadius(Unit)]
  /\ UNCHANGED <<clock, scene, lastCall, belt>>

\* Probed radii (metres): the catalog's planets and moons, and the first
\* MaxRadiusStep tenths of Earth's radius from 0; the Sun's radius is probed
\* as the Sun only.
MaxRadiusStep == 3

SUN_RADIUS == 696340000

BodyRadii ==
  {PLANETS[p].radius : p \in PlanetIds}
    \cup UNION {{PLANETS[p].moons[m].radius : m \in MoonIds(p)} : p \in PlanetIds}
    \cup {k * (EARTH_RADIUS * 100) : k \in 0..MaxRadiusStep}

RadiusProbes ==
  [kind : {"radius"}, radius : BodyRadii, isSun : BOOLEAN,
   done : {FALSE}, scaled : {0}]
    \cup [kind : {"radius"}, radius : {SUN_RADIUS}, isSun : {TRUE},
          done : {FALSE}, scaled : {0}]

ProbeRadius ==
  /\ probe.kind = "radius" /\ ~probe.done
  /\ probe' = [probe EXCEPT
                 !.done = TRUE,
                 !.scaled = getScaledRadius(probe.radius, probe.isSun)]
  /\ UNCHANGED <<clock, scene, lastCall, belt>>

\* Names asked for: the catalog's planets and names it does not hold.
UnknownNames == {"Sun", "Moon", "Pluto", "earth", ""}

QueryNames == {PLANETS[p].name : p \in PlanetIds} \cup UnknownNames

\* Moon orbit radii asked for (km): the catalog's for every name, and for
\* the names not held the first MaxQueryStep steps of 3 million km from 0.
MaxQueryStep == 2

QueryOrbits ==
  UNION {{PLANETS[p].moons[m].orbitalRadius : m \in MoonIds(p)}
         : p \in PlanetIds}

QueryProbes ==
  [kind : {"query"}, name : QueryNames, km : QueryOrbits, done : {FALSE},
   data : {<< >>}, orbit : {0}]
    \cup [kind : {"query"}, name : UnknownNames,
          km : {k * 3000000 : k \in 0..MaxQueryStep}, done : {FALSE},
          data : {<< >>}, orbit : {0}]

\* A query by body name: SolarSystem.getPlanetData(name) and
\* getScaledMoonOrbitRadius(km / AU, name).
ProbeQuery ==
  /\ probe.kind = "query" /\ ~probe.done
  /\ probe' = [probe EXCEPT
                 !.done = TRUE,
                 !.data = getPlanetData(probe.name),
                 !.orbit = getScaledMoonOrbitRadius(probe.km, probe.name)]
  /\ UNCHANGED <<clock, scene, lastCall, belt>>

\* Probed whole numbers of orbital periods: -MaxPeriods..MaxPeriods, as far
\* as the orbit angle they lead to fits a 32-bit integer.
MaxPeriods == 1

Earth == 3

\* TRUE when k periods after the reference day the orbit angle of planet p is
\* within the integers of the model.
PeriodsFit(p, day, k) ==
  /\ Abs(k) <= 2147483647 \div Rev(p)
  /\ k > 0 => AnchoredPlanet(p, day).initialOrbitAngle
                <= 2147483647 - k * Rev(p)

\* k orbital periods in seconds as <<whole, seconds>>: whole is TRUE when
\* k * orbitalPeriod * 86400 is a whole number of seconds within 32 bits.
PeriodsInSeconds(p, k) ==
  LET n == Abs(k) * PLANETS[p].periodNum
      d == PLANETS[p].periodDen
  IN  IF n <= (2147483647 \div SecondsPerDay) * d
         /\ MulDivRem(n, SecondsPerDay, d)[2] = 0
      THEN <<TRUE, MulDiv(k * PLANETS[p].periodNum, SecondsPerDay, d)>>
      ELSE <<FALSE, 0>>

ClosedOrbitProbes ==
  {pr \in [kind : {"closed"}, planet : PlanetIds,
           day : (J2000 - MaxProbeDays)..(J2000 + MaxProbeDays),
           periods : (-MaxPeriods)..MaxPeriods, done : {FALSE},
           atZero : {0}, atPeriods : {0}, wholeSeconds : {FALSE},
           atSeconds : {0}]
     : PeriodsFit(pr.planet, pr.day, pr.periods)}

\* Anchor at probe.day; the position of Planet.update at elapsed time 0 and
\* at probe.periods orbital periods, the latter also through the elapsed
\* seconds where they are whole.
ProbeClosedOrbit ==
  /\ probe.kind = "closed" /\ ~probe.done
  /\ LET p  == probe.planet
         pl == AnchoredPlanet(p, probe.day)
         s  == PeriodsInSeconds(p, probe.periods)
     IN  probe' =
           [probe EXCEPT
              !.done = TRUE,
              !.atZero = PlanetUpdate(p, pl, 0).position,
              !.atPeriods = PositionAfterDays(p, pl,
                              probe.periods * PLANETS[p].periodNum),
              !.wholeSeconds = s[1],
              !.atSeconds = IF s[1] THEN PositionAfterSeconds(p, pl, s[2])
                            ELSE 0]
  /\ UNCHANGED <<clock, scene, lastCall, belt>>

\* Probed calendar dates: every day of the years 1999 .. 2000 + MaxYearStep
\* and of the century years 1900 and 2100.
MaxYearStep == 1

\* The Gregorian calendar a Date's getFullYear, getMonth and getDate follow.
IsLeapYear(year) ==
  year % 4 = 0 /\ (year % 100 # 0 \/ year % 400 = 0)

DaysInMonth(year, month) ==
  IF month = 2 THEN (IF IsLeapYear(year) THEN 29 ELSE 28)
  ELSE IF month \in {4, 6, 9, 11} THEN 30 ELSE 31

\* The calendar day after date.
NextDay(date) ==
  IF date[3] < DaysInMonth(date[1], date[2])
  THEN <<date[1], date[2], date[3] + 1>>
  ELSE IF date[2] < 12 THEN <<date[1], date[2] + 1, 1>>
  ELSE <<date[1] + 1, 1, 1>>

CalendarYears == (1999..(2000 + MaxYearStep)) \cup {1900, 2100}

CalendarDates ==
  UNION {UNION {{<<year, month, day>> : day \in 1..DaysInMonth(year, month)}
                : month \in 1..12}
         : year \in CalendarYears}

JulianDayProbes ==
  [kind : {"julianDay"}, date : CalendarDates, done : {FALSE},
   jd : {0}, jdNextDay : {0}]

\* dateToJulianDay of a date and of the calendar day after it.
ProbeJulianDay ==
  /\ probe.kind = "julianDay" /\ ~probe.done
  /\ probe' = [probe EXCEPT
                 !.done = TRUE,
                 !.jd = dateToJulianDay(probe.date),
                 !.jdNextDay = dateToJulianDay(NextDay(probe.date))]
  /\ UNCHANGED <<clock, scene, lastCall, belt>>

InitFn ==
  /\ InitProgram
  /\ sunRotationY = << 0 >>
  /\ belt = NoAsteroidBelt
  /\ probe \in OrbitProbes \cup MoonProbes \cup OrbitScaleProbes
               \cup RadiusProbes \cup QueryProbes \cup ClosedOrbitProbes
               \cup JulianDayProbes

NextFn ==
  \/ ProbeOrbit
  \/ ProbeMoons
  \/ ProbeOrbitScale
  \/ ProbeRadius
  \/ ProbeQuery
  \/ ProbeClosedOrbit
  \/ ProbeJulianDay

SpecFn == InitFn /\ [][NextFn]_vars

\* ------------------------------------------------------------------------
\* The display settings: the program at time scale 1 with the planet scale,
\* the realistic-scale toggle and the orbit lines' visibility and mode set
\* between frames
\* ------------------------------------------------------------------------

\* update is called until currentTime reaches MaxFrames seconds.
MaxFrames == 3

InitDisplay ==
  /\ InitProgram
  /\ sunRotationY = << 0 >>
  /\ probe = [kind |-> "none"]
  /\ belt = NoAsteroidBelt

\* SolarSystem.setShowOrbits(show).
setShowOrbits(show) ==
  /\ lastCall' = "setShowOrbits"
  /\ showOrbits' = show
  /\ orbits' = [i \in DOMAIN orbits |-> [orbits[i] EXCEPT !.visible = show]]
  /\ UNCHANGED <<clock, planetScale, planets, writeLog, sunRotationY,
                 orbitMode, realisticScale, probe, belt>>

\* Variant: the lines of the new mode are created visible.
setOrbitMode_CreatesVisible(mode) ==
  /\ lastCall' = "setOrbitMode"
  /\ orbitMode' = mode
  /\ orbits' = createOrbitsForMode(mode, TRUE)
  /\ UNCHANGED <<clock, planetScale, planets, writeLog, sunRotationY,
                 showOrbits, realisticScale, probe, belt>>

\* SolarSystem.setOrbitMode(mode): recreateOrbits empties this.orbits and
\* createOrbitsForMode fills it again.
setOrbitMode(mode) ==
  /\ lastCall' = "setOrbitMode"
  /\ orbitMode' = mode
  /\ orbits' = createOrbitsForMode(mode, showOrbits)
  /\ UNCHANGED <<clock, planetScale, planets, writeLog, sunRotationY,
                 showOrbits, realisticScale, probe, belt>>

\* SolarSystem.setRealisticScale(realistic).
setRealisticScale(realistic) ==
  /\ lastCall' = "setRealisticScale"
  /\ realisticScale' = realistic
  /\ planets' = [p \in PlanetIds |->
                   PlanetSetRealisticScale(p, planets[p], realistic)]
  /\ UNCHANGED <<clock, planetScale, writeLog, sunRotationY, showOrbits,
                 orbitMode, orbits, probe, belt>>

\* A frame: SolarSystem.update(delta).
DisplayUpdate(delta) ==
  /\ currentTime < MaxFrames
  /\ update(delta)

NextDisplay ==
  \/ \E delta \in Deltas : DisplayUpdate(delta)
  \/ \E scale \in PlanetScales : setPlanetScale(scale)
  \/ \E realistic \in BOOLEAN : setRealisticScale(realistic)
  \/ \E show \in BOOLEAN : setShowOrbits(show)
  \/ \E mode \in {"static", "trails"} : setOrbitMode(mode)

SpecDisplay == InitDisplay /\ [][NextDisplay]_vars

\* ------------------------------------------------------------------------
\* The Sun's spin followed: the time controls, the date picker and the
\* frames, with sun.rotation.y kept as the number the program holds
\* ------------------------------------------------------------------------

\* update is called while |sun.rotation.y| stays within the angle of
\* MaxSunTime simulated seconds.
MaxSunTime == 3

InitSun ==
  /\ InitProgram
  /\ sunRotationY = << 0 >>
  /\ probe = [kind |-> "none"]
  /\ belt = NoAsteroidBelt

\* A frame: SolarSystem.update(delta).
SunUpdate(delta) ==
  /\ Abs(sunRotationY[1] + SunAdvance(delta, timeScale)) <= MaxSunTime
  /\ update(delta)

NextSun ==
  \/ togglePlayPause
  \/ \E value \in SliderValues : onTimeSpeedChange(value)
  \/ \E date \in Dates : onDateChange(date)
  \/ \E delta \in Deltas : SunUpdate(delta)

SpecSun == InitSun /\ [][NextSun]_vars

\* ------------------------------------------------------------------------
\* Extreme fast-forward: the frames at the time scale that takes Neptune
\* round its orbit in 60 seconds.  Elapsed times exceed 32 bits in seconds
\* and are counted in units of FastUnit seconds; an angle is kept as its
\* whole turns and the ticks within the turn
\* ------------------------------------------------------------------------

\* The unit of elapsed time, in seconds (1/40 day): the time scale times a
\* tenth of a second is a whole number of these.
FastUnit == 2160

\* Neptune, the last planet of the catalog.
Neptune == 8

\* The time scale set, 86,680,800: Neptune's orbitalPeriod of 60195 days of
\* simulated time in 60 seconds.
NeptuneOrbitScale == PLANETS[Neptune].periodNum * (SecondsPerDay \div 60)

\* Frame deltas are a tenth of a second and 1..MaxFrameSeconds seconds.
MaxFrameSeconds == 2

\* Frames are run until their deltas sum to MaxRealSeconds seconds.
MaxRealSeconds == 61

FrameTenths == {1} \cup {10 * k : k \in 1..MaxFrameSeconds}

\* An angle of rev whole turns and tick ticks, 0 <= |tick| < one turn.
Wide(rev, tick) == [rev |-> rev, tick |-> tick]

\* a + b for angles a, b >= 0 of turn ticks to the turn.
WidePlus(a, b, turn) ==
  IF a.tick >= turn - b.tick
  THEN Wide(a.rev + b.rev + 1, a.tick - (turn - b.tick))
  ELSE Wide(a.rev + b.rev, a.tick + b.tick)

\* time * speed for time >= 0 in FastUnit and a speed of num / den turns a
\* unit, as whole turns and ticks, ticksPer ticks to 1 / den turn
\* (rounded down).
Turns(time, num, den, ticksPerNum, ticksPerDen) ==
  LET d == MulDivRem(time, num, den)
  IN  Wide(d[1], MulDiv(d[2], ticksPerNum, ticksPerDen))

\* time * orbitalSpeed, orbitalSpeed = 2*pi / (orbitalPeriod * 24 * 3600):
\* periodDen / (40 * periodNum) turns a unit, a turn being Rev(p) ticks.
OrbitTurns(p, time) ==
  Turns(time, PLANETS[p].periodDen,
        (SecondsPerDay \div FastUnit) * PLANETS[p].periodNum,
        FourJulianYears, SecondsPerDay \div FastUnit)

\* time * rotationSpeed * rotationDirection: 6000 / |rotationPeriod| turns a
\* unit (rotationPeriod in 1/10000 hour), a turn being RotRev(p) ticks.
RotationTurns(p, time) ==
  LET t == Turns(time, (FastUnit * 10000) \div 3600,
                 Abs(PLANETS[p].rotationPeriod), 36, 1)
  IN  IF PLANETS[p].rotationPeriod < 0 THEN Wide(-t.rev, -t.tick) ELSE t

\* time * moonOrbitSpeed: 2500 / |orbitalPeriod| turns a unit (orbitalPeriod
\* in 1/100000 day), a turn being MoonRev(moon) ticks.
MoonTurns(moon, time) ==
  Turns(time, (FastUnit * 100000) \div SecondsPerDay,
        Abs(moon.orbitalPeriod), 432, 1)

\* delta * this.timeScale * sunRotationRate for an advance of time units:
\* FastUnit / SunRev turns a unit, a turn being SunRev ticks.
SunTurns(time) == Turns(time, FastUnit, SunRev, 1, 1)

\* new Planet(data, scene, scale), its angles as whole turns and ticks.
NewPlanetWide(p, scale) ==
  LET pl == NewPlanet(p, scale)
  IN  [pl EXCEPT !.orbitAngle = Wide(0, pl.orbitAngle),
                 !.rotationAngle = Wide(0, pl.rotationAngle)]

\* Planet.update(delta, time) for time >= 0 in FastUnit.
PlanetUpdateWide(p, pl, time) ==
  LET orbitAngle == WidePlus(Wide(0, pl.initialOrbitAngle),
                             OrbitTurns(p, time), Rev(p))
  IN  [pl EXCEPT
         !.orbitAngle    = orbitAngle,
         !.position      = updatePosition(p, orbitAngle.tick),
         !.rotationAngle = RotationTurns(p, time),
         !.moons         = [m \in MoonIds(p) |->
                              MoonPosition(p, m,
                                MoonTurns(PLANETS[p].moons[m], time).tick,
                                pl.currentScale)]]

\* The state after construction; probe counts the frames' deltas in tenths
\* of a second and keeps whether frames of different deltas were run.
InitFast ==
  /\ isPaused = FALSE
  /\ tc_timeScale = 1
  /\ timeScale = 1
  /\ currentTime = 0
  /\ referenceJD = J2000
  /\ planetScale = 3
  /\ planets = [p \in PlanetIds |-> NewPlanetWide(p, 3)]
  /\ lastCall = "constructor"
  /\ lastSetScale = 1
  /\ tickSum = 0
  /\ writeLog = << >>
  /\ sunRotationY = Wide(0, 0)
  /\ showOrbits = TRUE
  /\ orbitMode = "static"
  /\ orbits = createOrbitsForMode("static", TRUE)
  /\ realisticScale = FALSE
  /\ probe = [kind |-> "frames", tenths |-> 0, lastDelta |-> 0,
              mixed |-> FALSE]
  /\ belt = NoAsteroidBelt

\* SolarSystem.setTimeScale(86680800), before the first frame.
FastSetTimeScale ==
  /\ lastCall' = "setTimeScale"
  /\ probe.tenths = 0
  /\ setTimeScale(NeptuneOrbitScale)
  /\ UNCHANGED <<isPaused, tc_timeScale, currentTime, referenceJD, tickSum,
                 scene, probe, belt>>

\* Variant: every frame advances the clock by a tenth of a second's worth,
\* whatever its delta.
FastUpdate_FixedStep(tenths) ==
  LET advance == MulDivRem(timeScale, 1, 10 * FastUnit)
      time    == currentTime + advance[1]
  IN  /\ lastCall' = "update"
      /\ advance[2] = 0
      /\ probe.tenths + tenths <= 10 * MaxRealSeconds
      /\ sunRotationY' = WidePlus(sunRotationY, SunTurns(advance[1]), SunRev)
      /\ currentTime' = time
      /\ tickSum' = tickSum + advance[1]
      /\ planets' = [p \in PlanetIds |->
                       PlanetUpdateWide(p, planets[p], time)]
      /\ writeLog' = UpdateWrites(1, time)
      /\ orbits' = IF showOrbits /\ orbitMode = "trails"
                   THEN updateOrbitTrails(orbits, planets')
                   ELSE orbits
      /\ probe' = [probe EXCEPT
                     !.tenths = @ + tenths,
                     !.lastDelta = tenths,
                     !.mixed = @ \/ (probe.lastDelta # 0
                                       /\ probe.lastDelta # tenths)]
      /\ UNCHANGED <<isPaused, tc_timeScale, timeScale, referenceJD,
                     lastSetScale, planetScale, showOrbits, orbitMode,
                     realisticScale, belt>>

\* SolarSystem.update(delta) with delta = tenths / 10 seconds, at a time
\* scale that advances the clock by whole units.
FastUpdate(tenths) ==
  LET advance == MulDivRem(timeScale, tenths, 10 * FastUnit)
      time    == currentTime + advance[1]
  IN  /\ lastCall' = "update"
      /\ advance[2] = 0
      /\ probe.tenths + tenths <= 10 * MaxRealSeconds
      /\ sunRotationY' = WidePlus(sunRotationY, SunTurns(advance[1]), SunRev)
      /\ currentTime' = time
      /\ tickSum' = tickSum + advance[1]
      /\ planets' = [p \in PlanetIds |->
                       PlanetUpdateWide(p, planets[p], time)]
      /\ writeLog' = UpdateWrites(1, time)
      /\ orbits' = IF showOrbits /\ orbitMode = "trails"
                   THEN updateOrbitTrails(orbits, planets')
                   ELSE orbits
      /\ probe' = [probe EXCEPT
                     !.tenths = @ + tenths,
                     !.lastDelta = tenths,
                     !.mixed = @ \/ (probe.lastDelta # 0
                                       /\ probe.lastDelta # tenths)]
      /\ UNCHANGED <<isPaused, tc_timeScale, timeScale, referenceJD,
                     lastSetScale, planetScale, showOrbits, orbitMode,
                     realisticScale, belt>>

NextFast ==
  \/ FastSetTimeScale
  \/ \E tenths \in FrameTenths : FastUpdate(tenths)

SpecFast == InitFast /\ [][NextFast]_vars

\* ------------------------------------------------------------------------
\* The asteroid field on its own: a belt generated from bounded random
\* numbers, shown, hidden and updated with any elapsed time
\* ------------------------------------------------------------------------

\* Math.random() yields 0, 14/20, 19/20 (the ends of the belt and of the
\* inclination tiers) and 5 * k / 20 for k in 1..MaxRandomStep.
MaxRandomStep == 1

\* The belt is generated with MaxAsteroids asteroids.
MaxAsteroids == 2

\* update is called with elapsed times of -1..MaxBeltDays days.
MaxBeltDays == 2

Randoms == {0, 14, 19} \cup {5 * k : k \in 1..MaxRandomStep}

AsteroidDraws ==
  [radius : Randoms, angle : {5}, tier : {0, 14, 19}, incl : {15},
   scale : {10}]

BeltTimes == {k * SecondsPerDay : k \in (-1)..MaxBeltDays}

\* The asteroid generateAsteroids makes of each draw of random numbers
\* (evaluated once), and the belts it makes of MaxAsteroids draws.
GeneratedAsteroids == {generateAsteroid(draw) : draw \in AsteroidDraws}

GeneratedBelts ==
  {WithAsteroids(NewAsteroidBelt(<< >>), asteroids)
     : asteroids \in [1..MaxAsteroids -> GeneratedAsteroids]}

InitBelt ==
  /\ InitProgram
  /\ sunRotationY = << 0 >>
  /\ probe = [kind |-> "none", delta |-> 0, time |-> 0, hidden |-> << >>]
  /\ belt \in GeneratedBelts

\* AsteroidBelt.update(delta, time); probe keeps the arguments and, in
\* hidden, the time of the latest call made while the field was hidden.
BeltUpdate(delta, time) ==
  /\ lastCall' = "AsteroidBelt.update"
  /\ belt' = AsteroidBeltUpdate(belt, delta, time)
  /\ probe' = [kind |-> "beltUpdate", delta |-> delta, time |-> time,
               hidden |-> IF belt.isVisible THEN probe.hidden
                          ELSE << time >>]
  /\ UNCHANGED <<clock, scene>>

\* AsteroidBelt.setVisible(visible).
BeltSetVisible(visible) ==
  /\ lastCall' = "AsteroidBelt.setVisible"
  /\ belt' = AsteroidBeltSetVisible(belt, visible)
  /\ UNCHANGED <<clock, scene, probe>>

NextBelt ==
  \/ \E delta \in Deltas : \E time \in BeltTimes : BeltUpdate(delta, time)
  \/ \E visible \in BOOLEAN : BeltSetVisible(visible)

SpecBelt == InitBelt /\ [][NextBelt]_vars

\* ------------------------------------------------------------------------
\* The clock over all of JavaScript's numbers: the time scale and the
\* elapsed time are finite, NaN, Infinity or -Infinity
\* ------------------------------------------------------------------------

Fin(v) == [cls |-> "finite", v |-> v]

NaN == [cls |-> "NaN", v |-> 0]

Infinity == [cls |-> "Infinity", v |-> 1]

NegInfinity == [cls |-> "Infinity", v |-> -1]

Sign(v) == IF v > 0 THEN 1 ELSE IF v < 0 THEN -1 ELSE 0

\* a * b in IEEE arithmetic.
JsTimes(a, b) ==
  IF a.cls = "NaN" \/ b.cls = "NaN" THEN NaN
  ELSE IF a.cls = "finite" /\ b.cls = "finite" THEN Fin(a.v * b.v)
  ELSE IF Sign(a.v) * Sign(b.v) = 0 THEN NaN
  ELSE [cls |-> "Infinity", v |-> Sign(a.v) * Sign(b.v)]

\* a + b in IEEE arithmetic.
JsPlus(a, b) ==
  IF a.cls = "NaN" \/ b.cls = "NaN" THEN NaN
  ELSE IF a.cls = "finite" /\ b.cls = "finite" THEN Fin(a.v + b.v)
  ELSE IF a.cls = "finite" THEN b
  ELSE IF b.cls = "finite" THEN a
  ELSE IF a.v = b.v THEN a
  ELSE NaN

\* -a.
JsNegate(a) == [a EXCEPT !.v = -a.v]

\* The greatest whole n with Math.pow(10, n) finite (Number.MAX_VALUE is
\* 1.797e308).
MaxPow10 == 308

\* Math.pow(10, x / 20) for x >= 0 or x NaN; a finite x is a multiple of 20.
Pow10Twentieth(x) ==
  IF x.cls # "finite" THEN x
  ELSE IF x.v \div 20 > MaxPow10 THEN Infinity
  ELSE Fin(Pow10(x.v \div 20))

\* The time scale TimeControls.onTimeSpeedChange derives from
\* value = parseFloat(slider.value), which is NaN for a malformed value.
SliderTimeScaleAny(value) ==
  IF value.cls = "finite" /\ value.v = 0 THEN Fin(1)
  ELSE IF value.cls # "NaN" /\ value.v > 0 THEN Pow10Twentieth(value)
  ELSE JsNegate(Pow10Twentieth(JsNegate(value)))

\* Planet.update(delta, time) for any time: the cosine and sine of a
\* non-finite angle are NaN.
PlanetUpdateAny(p, pl, time) ==
  IF time.cls = "finite" THEN PlanetUpdate(p, pl, time.v)
  ELSE [pl EXCEPT
          !.orbitAngle    = time,
          !.position      = NaN,
          !.rotationAngle = time,
          !.moons         = [m \in MoonIds(p) |->
                               [angle |-> NaN, radius |-> NaN]]]

\* parseFloat(slider.value): the slider's positions, NaN for a malformed
\* value, and 6180, whose power of ten overflows.
ClockSliderValues == {Fin(v) : v \in SliderValues} \cup {NaN, Fin(6180)}

ClockScales == {NaN, Infinity, NegInfinity, Fin(1), Fin(-1)}

\* The state after construction, the clock's numbers as IEEE numbers.
InitClock ==
  /\ isPaused = FALSE
  /\ tc_timeScale = Fin(1)
  /\ timeScale = Fin(1)
  /\ currentTime = Fin(0)
  /\ referenceJD = J2000
  /\ planetScale = 3
  /\ planets = [p \in PlanetIds |-> NewPlanet(p, 3)]
  /\ lastCall = "constructor"
  /\ lastSetScale = Fin(1)
  /\ tickSum = Fin(0)
  /\ writeLog = << >>
  /\ sunRotationY = Fin(0)
  /\ showOrbits = TRUE
  /\ orbitMode = "static"
  /\ orbits = createOrbitsForMode("static", TRUE)
  /\ realisticScale = FALSE
  /\ probe = [kind |-> "none"]
  /\ belt = NoAsteroidBelt

\* SolarSystem.setTimeScale(scale) for any number.
setTimeScaleAny(scale) ==
  /\ timeScale' = scale
  /\ lastSetScale' = scale

\* A call of the public SolarSystem.setTimeScale.
ClockSetTimeScale(scale) ==
  /\ lastCall' = "setTimeScale"
  /\ setTimeScaleAny(scale)
  /\ UNCHANGED <<isPaused, tc_timeScale, currentTime, referenceJD, tickSum,
                 scene, probe, belt>>

\* TimeControls.togglePlayPause.
ClockTogglePlayPause ==
  /\ lastCall' = "togglePlayPause"
  /\ isPaused' = ~isPaused
  /\ IF isPaused' THEN setTimeScaleAny(Fin(0))
                  ELSE setTimeScaleAny(tc_timeScale)
  /\ UNCHANGED <<tc_timeScale, currentTime, referenceJD, tickSum, scene,
                 probe, belt>>

\* TimeControls.onTimeSpeedChange with parseFloat(slider.value) = value.
ClockOnTimeSpeedChange(value) ==
  /\ lastCall' = "onTimeSpeedChange"
  /\ tc_timeScale' = SliderTimeScaleAny(value)
  /\ IF ~isPaused THEN setTimeScaleAny(tc_timeScale')
                  ELSE UNCHANGED <<timeScale, lastSetScale>>
  /\ UNCHANGED <<isPaused, currentTime, referenceJD, tickSum, scene,
                 probe, belt>>

\* SolarSystem.update(delta).
ClockUpdate(delta) ==
  LET time == JsPlus(currentTime, JsTimes(Fin(delta), timeScale))
  IN  /\ lastCall' = "update"
      /\ time.cls = "finite" => Abs(time.v) <= MaxTime
      /\ currentTime' = time
      /\ tickSum' = JsPlus(tickSum, JsTimes(Fin(delta), lastSetScale))
      /\ planets' = [p \in PlanetIds |-> PlanetUpdateAny(p, planets[p], time)]
      /\ writeLog' = UpdateWrites(1, time)
      /\ sunRotationY' = JsPlus(sunRotationY, JsTimes(Fin(delta), timeScale))
      /\ orbits' = IF showOrbits /\ orbitMode = "trails"
                   THEN updateOrbitTrails(orbits, planets')
                   ELSE orbits
      /\ UNCHANGED <<isPaused, tc_timeScale, timeScale, referenceJD,
                     lastSetScale, planetScale, probe, belt, showOrbits,
                     orbitMode, realisticScale>>

NextClock ==
  \/ \E scale \in ClockScales : ClockSetTimeScale(scale)
  \/ ClockTogglePlayPause
  \/ \E value \in ClockSliderValues : ClockOnTimeSpeedChange(value)
  \/ \E delta \in Deltas : ClockUpdate(delta)

SpecClock == InitClock /\ [][NextClock]_vars

\* ------------------------------------------------------------------------
\* Properties
\* ------------------------------------------------------------------------

\* Every body's transform is the one update computes from the planet's
\* anchor angle and scale and the current elapsed time.
InSync ==
  planets = [p \in PlanetIds |-> PlanetUpdate(p, planets[p], currentTime)]

\* C1, as stated: while the time controls are paused, every update leaves
\* currentTime unchanged and leaves every planet's position and rotation
\* angle and every moon's position unchanged.
C1_PausedUpdateFreezesBodies ==
  [][((\E delta \in Deltas : update(delta)) /\ isPaused)
       => (currentTime' = currentTime /\ planets' = planets)]_vars

\* C1, amended: while paused, every update leaves currentTime unchanged,
\* and leaves every planet's position and rotation angle and every moon's
\* position unchanged when the transforms already reflect the planets'
\* anchor angle and scale, that is unless setReferenceDate or a scale
\* change came since the previous update.
C1_PausedUpdateFreezesSyncedBodies ==
  [][((\E delta \in Deltas : update(delta)) /\ isPaused)
       => (currentTime' = currentTime /\ (InSync => planets' = planets))]_vars

C1_Witness ==
  /\ isPaused
  /\ lastCall = "update"
  /\ currentTime # 0
  /\ InSync

\* C2: the scale in effect in SolarSystem is 0 while paused and the chosen
\* TimeControls.timeScale while playing, and togglePlayPause never changes
\* the chosen scale.
C2_EffectiveScale ==
  /\ [](timeScale = IF isPaused THEN 0 ELSE tc_timeScale)
  /\ [][togglePlayPause => tc_timeScale' = tc_timeScale]_vars

\* A speed was chosen while paused: it is kept, and 0 stays in effect.
C2_Witness ==
  /\ isPaused
  /\ lastCall = "onTimeSpeedChange"
  /\ tc_timeScale = 10
  /\ timeScale = 0

\* C3: currentTime is the sum, over the updates since the last
\* re-anchoring, of delta times the scale passed to the latest
\* setTimeScale call; that scale is in effect unclamped, and an update under
\* a negative scale decreases currentTime.
C3_ElapsedIsScaledSum ==
  /\ [](currentTime = tickSum /\ timeScale = lastSetScale)
  /\ [][((\E delta \in Deltas : update(delta)) /\ timeScale < 0)
          => currentTime' < currentTime]_vars

C3_Witness ==
  /\ lastCall = "update"
  /\ timeScale < 0
  /\ currentTime < 0

\* C4: every planet holds the SolarSystem's referenceJD, and a date change
\* sets the reference day to the picked day and currentTime to 0 and keeps
\* timeScale.
C4_Reanchor ==
  /\ [](\A p \in PlanetIds : planets[p].referenceJD = referenceJD)
  /\ [][\A date \in Dates :
          onDateChange(date)
            => /\ currentTime' = 0
               /\ referenceJD' = dateToJulianDay(date)
               /\ timeScale' = timeScale]_vars

C4_Witness ==
  /\ lastCall = "onDateChange"
  /\ referenceJD # J2000
  /\ timeScale = 10
  /\ currentTime = 0
  /\ \A p \in PlanetIds : planets[p].referenceJD = referenceJD

\* C5: anchoring at day D and advancing the elapsed time by T days puts a
\* planet where anchoring at day D + T with elapsed time 0 puts it.
C5_ReanchorConsistent ==
  (probe.kind = "orbit" /\ probe.done) => probe.moved = probe.anchored

\* C6: two reference dates one orbital period of the planet apart give the
\* same epoch angle modulo one revolution.
C6_SameEpochAnglePeriodApart ==
  (probe.kind = "orbit" /\ probe.done) => probe.epoch = probe.epochNextPeriod

\* C7: after re-anchoring to another date, the moons at elapsed time 0 are
\* placed from that date and not all at the zero angle.
C7_MoonsFollowReferenceDate ==
  (lastCall = "update" /\ currentTime = 0 /\ referenceJD # J2000)
    => \E p \in PlanetIds : \E m \in MoonIds(p) : planets[p].moons[m].angle # 0

\* The planets' names in catalog order.
PlanetNames == [p \in PlanetIds |-> PLANETS[p].name]

\* C8: within an update every write carries the same, already incremented
\* currentTime, the planets are written in catalog order, and every moon
\* is written after its own planet and before the next planet.
C8_ParentBeforeMoons ==
  writeLog # << >> =>
    /\ \A i \in DOMAIN writeLog : writeLog[i].time = writeLog[1].time
    /\ lastCall = "update" => writeLog[1].time = currentTime
    /\ SelectSeq(writeLog, LAMBDA w : w.parent = "Sun")
         = [p \in PlanetIds |->
              [body |-> PlanetNames[p], parent |-> "Sun",
               time |-> writeLog[1].time]]
    /\ \A i \in DOMAIN writeLog :
         writeLog[i].parent # "Sun" =>
           \E j \in 1..(i - 1) :
             /\ writeLog[j].body = writeLog[i].parent
             /\ \A k \in (j + 1)..i : writeLog[k].parent = writeLog[i].parent

C8_Witness ==
  /\ lastCall = "update"
  /\ currentTime # 0
  /\ Len(writeLog) = 23
  /\ writeLog[3].body = "Earth"
  /\ writeLog[4] = [body |-> "Moon", parent |-> "Earth", time |-> currentTime]

\* C9: a moon's scaled orbit radius is strictly greater than the scaled
\* radius of its planet plus its own scaled radius plus the safety margin.
C9_MoonClearsPlanet ==
  (probe.kind = "moons" /\ probe.done) => probe.orbit1 > probe.clearance1

\* C10: two moons of one planet with real orbital radii a < b have scaled
\* orbit radii in the same strict order.
C10_MoonOrbitsOrdered ==
  (/\ probe.kind = "moons"
   /\ probe.done
   /\ PLANETS[probe.planet].moons[probe.m1].orbitalRadius
        < PLANETS[probe.planet].moons[probe.m2].orbitalRadius)
    => probe.orbit1 < probe.orbit2

\* C11: getScaledOrbitRadius is strictly increasing in the AU distance under
\* the linear policy (d * 30) and under the power law (50 * d^0.8), and the
\* power law maps 1 AU to 50.
C11_OrbitScaleMonotonic ==
  (probe.kind = "orbitScale" /\ probe.done)
    => /\ probe.linear1 < probe.linear2
       /\ probe.power1 < probe.power2
       /\ probe.powerAtOneAU = 50 * Unit

\* Uranus and Neptune, the two distances a cap would merge, and two
\* neighbouring steps next to 0.
C11_Witness ==
  /\ probe.kind = "orbitScale" /\ probe.done
  /\ \/ probe.d1 = PLANETS[7].orbitalRadius /\ probe.d2 = PLANETS[8].orbitalRadius
     \/ probe.d1 = 0 /\ probe.d2 = 1

\* C12: getScaledRadius is exactly 5 for the Sun whatever the radius;
\* otherwise it is radius / 6371 km (to 1/Unit, rounded down) where that is
\* at least 0.2 and 0.2 below that, so it is never under 0.2, and Earth's
\* is exactly 1.
C12_ScaledRadius ==
  (probe.kind = "radius" /\ probe.done)
    => IF probe.isSun THEN probe.scaled = 5 * Unit
       ELSE LET tenMetres == probe.radius * (Unit \div 1000)
                floor     == (Unit \div 5) * EARTH_RADIUS
            IN  /\ probe.scaled >= Unit \div 5
                /\ tenMetres <= floor => probe.scaled = Unit \div 5
                /\ tenMetres >= floor
                     => /\ probe.scaled * EARTH_RADIUS <= tenMetres
                        /\ tenMetres < (probe.scaled + 1) * EARTH_RADIUS
                /\ probe.radius = EARTH_RADIUS * 1000 => probe.scaled = Unit

\* Phobos, far under the minimum, scaled as a body other than the Sun.
C12_Witness ==
  /\ probe.kind = "radius" /\ probe.done
  /\ ~probe.isSun
  /\ probe.radius = PLANETS[4].moons[1].radius
  /\ probe.scaled = Unit \div 5

\* The signed change from angle a to angle b on a circle of rev ticks, taken
\* in -rev/2 .. rev/2.
AngleChange(a, b, rev) ==
  LET d == (b - a) % rev
  IN  IF 2 * d > rev THEN d - rev ELSE d

\* Neptune's moon Triton, the catalog's body with a negative orbitalPeriod.
Triton == 1

\* C13: as elapsed time increases, the angle Planet.update writes for
\* Triton (orbitalPeriod -5.877 days) strictly decreases, while the angle
\* of a moon with a positive period (Earth's Moon) increases.
C13_TritonRetrograde ==
  [][(lastCall' = "update" /\ InSync /\ currentTime' > currentTime)
       => /\ AngleChange(planets[Neptune].moons[Triton].angle,
                         planets'[Neptune].moons[Triton].angle,
                         MoonRev(PLANETS[Neptune].moons[Triton])) < 0
          /\ AngleChange(planets[3].moons[1].angle,
                         planets'[3].moons[1].angle,
                         MoonRev(PLANETS[3].moons[1])) > 0]_vars

\* C14: as elapsed time increases, the rotation angle Planet.update writes
\* strictly decreases for a planet with a negative rotationPeriod and
\* strictly increases for one with a positive rotationPeriod; the angle is
\* elapsed time * 2*pi / (|rotationPeriod| * 3600) with the period's sign,
\* that is the elapsed centiseconds, signed, in ticks of RotRev to 2*pi.
C14_RotationSign ==
  /\ [](lastCall = "update" =>
          \A p \in PlanetIds :
            planets[p].rotationAngle =
              IF PLANETS[p].rotationPeriod < 0 THEN -(currentTime * 100)
              ELSE currentTime * 100)
  /\ [][(lastCall' = "update" /\ InSync /\ currentTime' > currentTime)
          => \A p \in PlanetIds :
               IF PLANETS[p].rotationPeriod < 0
               THEN planets'[p].rotationAngle < planets[p].rotationAngle
               ELSE planets'[p].rotationAngle > planets[p].rotationAngle]_vars

\* Venus has turned backward and Earth forward.
C14_Witness ==
  /\ lastCall = "update"
  /\ currentTime > 0
  /\ planets[2].rotationAngle < 0
  /\ planets[3].rotationAngle > 0

\* C15: while the asteroid field is invisible, AsteroidBelt.update leaves
\* every asteroid's position and the instance matrices unchanged, whatever
\* its delta and time; the field is invisible after construction and after
\* setVisible(false).
C15_InvisibleBeltSkipsUpdate ==
  /\ [](lastCall = "constructor" => ~belt.isVisible)
  /\ [][(lastCall' = "AsteroidBelt.update" /\ ~belt.isVisible)
          => /\ belt'.asteroids = belt.asteroids
             /\ belt'.instanceMatrix = belt.instanceMatrix]_vars

\* The field was hidden and then updated with an elapsed time other than
\* the one its asteroids are placed at.
C15_Witness ==
  /\ lastCall = "AsteroidBelt.update"
  /\ ~belt.isVisible
  /\ probe.time # 0
  /\ belt.asteroids # AsteroidsAt(belt, probe.time).asteroids

\* C16: an asteroid's angular speed 2*pi / period follows Kepler's third
\* law in its own orbital radius: of two generated asteroids the one with
\* the smaller radius has the shorter period (the greater speed), the
\* squared periods are in the ratio of the cubed radii, and the period in
\* years is (radius / 80)^1.5 (to 1/1000 day); the data generated are never
\* changed.
C16_AsteroidKepler ==
  /\ [](lastCall = "constructor" =>
          \A i, j \in DOMAIN belt.asteroids :
            LET a  == belt.asteroids[i].data
                b  == belt.asteroids[j].data
                r3(x) == BigPow(BigFromInt(x.orbitalRadius), 3)
                P2(n) == BigPow(BigFromInt(n), 2)
                au3 == BigPow(BigFromInt(BeltUnitsPerAU * Unit), 3)
                y2  == BigPow(BigFromInt(YearMilliDays), 2)
            IN  /\ a.orbitalRadius < b.orbitalRadius
                     => a.orbitalPeriod < b.orbitalPeriod
                /\ BigLeq(BigMul(P2(a.orbitalPeriod), r3(b)),
                          BigMul(P2(b.orbitalPeriod + 1), r3(a)))
                /\ BigLeq(BigMul(P2(a.orbitalPeriod), au3), BigMul(r3(a), y2))
                /\ ~BigLeq(BigMul(P2(a.orbitalPeriod + 1), au3),
                           BigMul(r3(a), y2)))
  /\ [][\A i \in DOMAIN belt.asteroids :
          belt'.asteroids[i].data = belt.asteroids[i].data]_vars

\* A belt with an asteroid on the inner edge and one further out.
C16_Witness ==
  /\ Len(belt.asteroids) >= 2
  /\ lastCall = "constructor"
  /\ belt.asteroids[1].data.orbitalRadius = BeltInnerRadius
  /\ belt.asteroids[2].data.orbitalRadius > BeltInnerRadius
  /\ belt.asteroids[1].data.orbitalPeriod < belt.asteroids[2].data.orbitalPeriod

\* Mars and Jupiter in the catalog.
Mars == 4

Jupiter == 5

\* C17: in every state every asteroid's orbital radius lies between the
\* belt's inner and outer radii (2.2 AU and 3.3 AU scaled) and strictly
\* between the scaled orbital radii of Mars and Jupiter as given by
\* getScaledOrbitRadius.
C17_BeltBetweenMarsAndJupiter ==
  \A i \in DOMAIN belt.asteroids :
    LET r == belt.asteroids[i].data.orbitalRadius
    IN  /\ BeltInnerRadius <= r
        /\ r <= BeltOuterRadius
        /\ getScaledOrbitRadius(PLANETS[Mars].orbitalRadius) < r
        /\ r < getScaledOrbitRadius(PLANETS[Jupiter].orbitalRadius)

\* C18: a NaN, Infinity or -Infinity time scale, passed to setTimeScale or
\* derived by onTimeSpeedChange from the slider's value, is rejected: the
\* call leaves timeScale as it was, so the time scale and, through any
\* later updates, the elapsed time stay finite.
C18_NonFiniteScaleRejected ==
  /\ [](timeScale.cls = "finite" /\ currentTime.cls = "finite")
  /\ [][\A scale \in ClockScales :
          (ClockSetTimeScale(scale) /\ scale.cls # "finite")
            => timeScale' = timeScale]_vars

\* C19: every body that is propagated has a positive orbital period and an
\* eccentricity in 0 <= e < 1, any other entry having been rejected when
\* the catalog was loaded.
C19_CatalogValidated ==
  \A p \in DOMAIN planets :
    /\ PLANETS[p].periodNum > 0
    /\ PLANETS[p].periodDen > 0
    /\ 0 <= PLANETS[p].eccentricity
    /\ PLANETS[p].eccentricity < Unit
    /\ \A m \in DOMAIN planets[p].moons :
         PLANETS[p].moons[m].orbitalPeriod > 0

\* C20: a query by a name the catalog does not hold throws nothing and
\* changes no state: getPlanetData returns undefined and
\* getScaledMoonOrbitRadius the fallback max(1.0, radiusAU * 50); a name
\* the catalog holds returns its entry.
C20_UnknownNameNotFound ==
  /\ [](probe.kind = "query" /\ probe.done =>
          IF \E p \in PlanetIds : PLANETS[p].name = probe.name
          THEN Len(probe.data) = 1 /\ probe.data[1].name = probe.name
          ELSE /\ probe.data = << >>
               /\ probe.orbit = Max(Unit, MulDiv(probe.km * 10, 50 * Unit, AU)))
  /\ [][(probe.kind = "query" /\ probe'.done /\ ~probe.done)
          => UNCHANGED <<clock, scene, belt>>]_vars

\* Pluto was asked for, with an orbit the fallback scales above its floor.
C20_Witness ==
  /\ probe.kind = "query" /\ probe.done
  /\ probe.name = "Pluto"
  /\ probe.data = << >>
  /\ probe.orbit > Unit

\* C21: closed orbit.  For every planet and reference date, the position
\* Planet.update computes at an elapsed time of a whole number of orbital
\* periods, forward or backward, equals the position at elapsed time 0.
C21_ClosedOrbit ==
  (probe.kind = "closed" /\ probe.done)
    => /\ probe.atPeriods = probe.atZero
       /\ probe.wholeSeconds => probe.atSeconds = probe.atZero

\* Earth, anchored at J2000, one period on.
C21_Witness ==
  /\ probe.kind = "closed" /\ probe.done
  /\ probe.planet = Earth /\ probe.day = J2000 /\ probe.periods = 1
  /\ probe.atPeriods = probe.atZero

\* The propagation fields of a planet: epoch angle, orbital angle and
\* heliocentric position.
Propagated(pl) == <<pl.initialOrbitAngle, pl.orbitAngle, pl.position>>

\* C23: setPlanetScale(s) changes neither currentTime, timeScale,
\* referenceJD nor any planet's epoch angle, orbital angle or heliocentric
\* position, and what the next update computes for these does not depend
\* on the scale that was set.
C23_ScaleLeavesPropagation ==
  /\ [][lastCall' = "setPlanetScale"
          => /\ UNCHANGED <<currentTime, timeScale, referenceJD>>
             /\ \A p \in PlanetIds :
                  Propagated(planets'[p]) = Propagated(planets[p])]_vars
  /\ [][lastCall' = "update"
          => \A p \in PlanetIds : \A scale \in PlanetScales :
               Propagated(planets'[p])
                 = Propagated(PlanetUpdate(p,
                                PlanetSetScale(p, planets[p], scale),
                                currentTime'))]_vars

\* The scale was changed after the planets had moved from their epoch
\* angles.
C23_Witness ==
  /\ lastCall = "setPlanetScale"
  /\ planetScale = MaxPlanetScale - 1
  /\ planets[Earth].currentScale = planetScale
  /\ currentTime # 0
  /\ planets[Earth].orbitAngle # planets[Earth].initialOrbitAngle

\* C25: AsteroidBelt.update on a visible field recomputes positions only.
\* Each asteroid's x and z come from initialAngle + time * orbitalSpeed, its
\* y from its own inclination and orbitalRadius, and neither an asteroid's
\* orbitalRadius, initialAngle, inclination, orbitalSpeed or scale nor the
\* number of asteroids changes.
C25_VisibleBeltMovesPositionsOnly ==
  [][(lastCall' = "AsteroidBelt.update" /\ belt.isVisible)
       => /\ DOMAIN belt'.asteroids = DOMAIN belt.asteroids
          /\ belt'.isVisible = belt.isVisible
          /\ \A i \in DOMAIN belt.asteroids :
               LET data == belt.asteroids[i].data
                   position == belt'.asteroids[i].position
               IN  /\ belt'.asteroids[i].data = data
                   /\ position.angle
                        = (data.initialAngle + probe'.time * 10)
                            % (data.orbitalPeriod * 864)
                   /\ position.radius = data.orbitalRadius
                   /\ position.inclination = data.inclination
                   /\ belt'.instanceMatrix[i]
                        = [position |-> position, scale |-> data.scale]]_vars

\* A visible field was updated at a later time: an inclined asteroid has
\* left its initial angle.
C25_Witness ==
  /\ lastCall = "AsteroidBelt.update"
  /\ belt.isVisible
  /\ probe.time > 0
  /\ Len(belt.asteroids) = MaxAsteroids
  /\ belt.asteroids[1].data.inclination # 0
  /\ belt.asteroids[1].position.angle # belt.asteroids[1].data.initialAngle

\* C27: hiding the asteroid field loses no motion.  After any calls of
\* setVisible and update, an update at time t of the visible field leaves
\* every asteroid where its initial angle and t put it, whatever updates
\* were skipped while the field was hidden.
C27_HidingLosesNoMotion ==
  (lastCall = "AsteroidBelt.update" /\ belt.isVisible)
    => \A i \in DOMAIN belt.asteroids :
         /\ belt.asteroids[i].position
              = AsteroidPosition(
                  belt.asteroids[i].data.initialAngle + probe.time * 10,
                  belt.asteroids[i].data)
         /\ belt.instanceMatrix[i].position = belt.asteroids[i].position

\* The field was updated while hidden, shown, and updated at a later time.
C27_Witness ==
  /\ lastCall = "AsteroidBelt.update"
  /\ belt.isVisible
  /\ probe.hidden # << >>
  /\ probe.hidden[1] > 0
  /\ probe.time > probe.hidden[1]
  /\ Len(belt.asteroids) = MaxAsteroids

\* C26: dateToJulianDay is the Gregorian-to-Julian-Day-Number conversion
\* of the date's year, month and day: consecutive calendar days, across
\* month ends, year ends and 29 February, map to consecutive integers, and
\* 1 January 2000 maps to 2451545.
C26_JulianDayNumber ==
  (probe.kind = "julianDay" /\ probe.done)
    => /\ probe.jdNextDay = probe.jd + 1
       /\ probe.date = <<2000, 1, 1>> => probe.jd = 2451545

\* 29 February 2000 and the day after it, 1 March.
C26_Witness ==
  /\ probe.kind = "julianDay" /\ probe.done
  /\ probe.date = <<2000, 2, 29>>
  /\ NextDay(probe.date) = <<2000, 3, 1>>
  /\ probe.jdNextDay = probe.jd + 1

\* C28: after any setShowOrbits and setOrbitMode calls the scene holds one
\* orbit line per catalog planet, in catalog order, every line's mode is
\* the current orbitMode and every line's visibility is showOrbits;
\* switching the mode while orbits are hidden makes no line visible.
C28_OrbitLinesFollowSettings ==
  /\ [](/\ Len(orbits) = Len(PLANETS)
        /\ \A i \in DOMAIN orbits :
             /\ orbits[i].planetName = PLANETS[i].name
             /\ orbits[i].mode = orbitMode
             /\ orbits[i].visible = showOrbits)
  /\ [][(lastCall' = "setOrbitMode" /\ ~showOrbits)
          => \A i \in DOMAIN orbits' : ~orbits'[i].visible]_vars

\* The mode was switched to trails while the orbits were hidden.
C28_Witness ==
  /\ lastCall = "setOrbitMode"
  /\ ~showOrbits
  /\ orbitMode = "trails"
  /\ Len(orbits) = Len(PLANETS)
  /\ orbits[Earth].mode = "trails"
  /\ ~orbits[Earth].visible

\* C29: in trail mode with orbits shown, after every update each orbit
\* line's trail holds exactly trailLength points, the planet's newest
\* position first and the older ones moved back by one, the oldest
\* dropped (a trail that was empty is filled with the newest position);
\* the trail never exceeds trailLength, and an update while orbits are
\* hidden or the mode is static changes no orbit line.
C29_TrailBuffer ==
  /\ [][lastCall' = "update"
          => IF showOrbits /\ orbitMode = "trails"
             THEN \A i \in DOMAIN orbits :
                    LET old == orbits[i].trailPoints
                        new == orbits'[i].trailPoints
                    IN  /\ Len(new) = trailLength
                        /\ new[1] = << planets'[i].position >>
                        /\ \A k \in 2..trailLength :
                             new[k] = IF old = << >> THEN new[1]
                                      ELSE old[k - 1]
                        /\ orbits'[i].positions = new
             ELSE orbits' = orbits]_vars
  /\ [](\A i \in DOMAIN orbits :
          /\ Len(orbits[i].trailPoints) <= trailLength
          /\ orbits[i].mode = "trails"
               => Len(orbits[i].positions) = trailLength)

\* Three updates in trail mode: Earth's newest position leads its trail,
\* the two before it follow.
C29_Witness ==
  /\ lastCall = "update"
  /\ showOrbits /\ orbitMode = "trails"
  /\ Len(orbits[Earth].trailPoints) = trailLength
  /\ orbits[Earth].trailPoints[1] = << planets[Earth].position >>
  /\ orbits[Earth].trailPoints[2] # orbits[Earth].trailPoints[1]
  /\ orbits[Earth].trailPoints[3] # orbits[Earth].trailPoints[2]

\* C30: realistic-scale mode is a reversible toggle.  While the latest
\* setRealisticScale call was with true every planet's currentScale is 1;
\* otherwise every planet's currentScale is SolarSystem.planetScale, the
\* scale most recently chosen with setPlanetScale.
C30_RealisticScaleReversible ==
  \A p \in PlanetIds :
    planets[p].currentScale = IF realisticScale THEN 1 ELSE planetScale

\* C24: after an update every tracked body's transform is a function of
\* the clock state (referenceJD, currentTime) alone, whatever calls led to
\* it: each planet's angles, position and moons are those Planet.update
\* computes from the planet anchored at referenceJD, and the Sun's rotation
\* is the one a single update from construction to currentTime gives.
C24_TransformsFunctionOfClock ==
  lastCall = "update"
    => /\ \A p \in PlanetIds :
            planets[p]
              = PlanetUpdate(p,
                  PlanetSetScale(p, AnchoredPlanet(p, referenceJD),
                                 planets[p].currentScale),
                  currentTime)
       /\ sunRotationY = << SunAdvance(1, currentTime) >>

\* C22: with the time scale set to 86,680,800, once the deltas of the
\* frames sum to 60 seconds, however the 60 seconds are cut into frames,
\* currentTime has advanced by 60195 * 86400 seconds and Neptune's mean
\* anomaly by exactly one revolution.
C22_NeptuneOrbitInSixtySeconds ==
  (probe.kind = "frames" /\ probe.tenths = 600)
    => /\ timeScale = NeptuneOrbitScale
       /\ currentTime = 60195 * (SecondsPerDay \div FastUnit)
       /\ planets[Neptune].orbitAngle
            = Wide(1, planets[Neptune].initialOrbitAngle)

\* Frames of different lengths sum to 60 seconds.
C22_Witness ==
  /\ probe.kind = "frames" /\ probe.tenths = 600
  /\ probe.mixed
  /\ lastCall = "update"
  /\ planets[Neptune].orbitAngle.rev = 1

====
